---- MODULE Spec2Model ----
(***************************************************************************)
(* Model of Trake's host-authoritative multiplayer controller              *)
(* (src/script/MultiplayerController.js) together with the Snake entity    *)
(* (src/script/main.js, "Snake.js" section) it simulates.                  *)
(*                                                                         *)
(* One MultiplayerController instance is modelled as an open system: the   *)
(* UI callbacks, the animation-frame callback and the network listener are *)
(* the actions; the frames' time deltas, the wall clock that seeds the RNG *)
(* and the messages arriving from the transport are inputs drawn from      *)
(* small sets.                                                             *)
(*                                                                         *)
(* Left out, because no state transition depends on them: display names,   *)
(* colours, the UI object, lastSegments and the receivedAt/_lastSnapAt/    *)
(* _lastRaf clock readings (rendering only).                               *)
(***************************************************************************)
EXTENDS Integers, Sequences, FiniteSets, TLC

(***************************************************************************)
(* Program constants kept at their source value.                           *)
(***************************************************************************)
MAX_PLAYERS == 4
TICK_MS == 100
SHRINK_AMOUNT == 4
MIN_SNAKE_LEN == 2
SNAP_BUF_MAX == 20
SPAWN_TRIES == 1000
RESPAWN_RADIUS == 6
RESPAWN_RANDOM_TRIES == 200
SCORE_PER_FOOD == 10
\* EFFECT.SPEED_MULT = 1.5 and EFFECT.SLOW_MULT = 0.7, in hundredths.
SPEED_MULT_PCT == 150
SLOW_MULT_PCT == 70
MAX_MULT_PCT == 300

(***************************************************************************)
(* Bounds of the model.  The board and the durations are the program's     *)
(* GRID_COLS = 40, GRID_ROWS = 30, FOOD_COUNT = 10, POWERUP_COUNT = 3,     *)
(* MATCH_DURATION_TICKS = 1800, RESPAWN_DELAY_TICKS = 30,                  *)
(* COUNTDOWN_TICKS = 30 and the effect durations 30 / 35 / 25 ticks,       *)
(* scaled down so that the reachable states can be enumerated.             *)
(***************************************************************************)
GRID_COLS == 5
GRID_ROWS == 5
FOOD_COUNT == 1
POWERUP_COUNT == 1
MATCH_DURATION_TICKS == 3
RESPAWN_DELAY_TICKS == 2
COUNTDOWN_TICKS == 1
SPEED_TICKS == 3
SLOW_TICKS == 3
GHOST_TICKS == 3
\* The tick counter is capped: no frame is processed past MaxTick.
MaxTick == 5
\* At most MaxSnapBuf snapshots are delivered to one client buffer.
MaxSnapBuf == 2

(***************************************************************************)
(* Identities.  JS null is NULL for ticks and NoId for identities.        *)
(***************************************************************************)
NULL == -1
NoId == 0
HostId == 1
JoinerId == 2
PeerIds == {2}
AllIds == {HostId} \cup PeerIds
NoSession == 0
SessionCode == 1

Cardinals == {<<1, 0>>, <<-1, 0>>, <<0, 1>>, <<0, -1>>}

\* keyToDir: the four arrow keys; every other key gives null.
keyToDir(key) ==
  CASE key = "ArrowUp" -> <<0, -1>>
    [] key = "ArrowDown" -> <<0, 1>>
    [] key = "ArrowLeft" -> <<-1, 0>>
    [] key = "ArrowRight" -> <<1, 0>>
    [] OTHER -> <<0, 0>>

isCardinal(dir) ==
  \/ (dir[1] = 1 /\ dir[2] = 0)
  \/ (dir[1] = -1 /\ dir[2] = 0)
  \/ (dir[1] = 0 /\ dir[2] = 1)
  \/ (dir[1] = 0 /\ dir[2] = -1)

\* Array.prototype.indexOf, 0-based, -1 when absent.
RECURSIVE IndexFrom(_, _, _)
IndexFrom(seq, x, i) ==
  IF i > Len(seq) THEN -1
  ELSE IF seq[i] = x THEN i - 1
  ELSE IndexFrom(seq, x, i + 1)

IndexOf(seq, x) == IndexFrom(seq, x, 1)

Includes(seq, x) == \E i \in 1..Len(seq) : seq[i] = x

\* Array.prototype.splice(idx, 1) with a 0-based idx.
RemoveAt(seq, idx) ==
  [i \in 1..(Len(seq) - 1) |-> IF i <= idx THEN seq[i] ELSE seq[i + 1]]

\* Array.prototype.slice(0, n).
Slice(seq, n) == IF Len(seq) <= n THEN seq ELSE SubSeq(seq, 1, n)

RECURSIVE dedupeFrom(_, _, _)
dedupeFrom(arr, i, out) ==
  IF i > Len(arr) THEN out
  ELSE IF arr[i] = NoId \/ Includes(out, arr[i]) THEN dedupeFrom(arr, i + 1, out)
  ELSE dedupeFrom(arr, i + 1, Append(out, arr[i]))

dedupe(arr) == dedupeFrom(arr, 1, <<>>)

Max(a, b) == IF a >= b THEN a ELSE b
Min(a, b) == IF a <= b THEN a ELSE b
Abs(a) == IF a < 0 THEN -a ELSE a

\* const v = ...; followed by the statements F that use it.
With(v, F(_)) == F(v)

(***************************************************************************)
(* Deterministic RNG.  The 32-bit state is the pair <<hi, lo>> of its      *)
(* 16-bit halves, so that 1664525 * s + 1013904223 mod 2^32 is computed    *)
(* without leaving the integers TLC can hold.                              *)
(*   1664525    = 25 * 65536 + 26125                                       *)
(*   1013904223 = 15470 * 65536 + 62303                                    *)
(***************************************************************************)
HALF == 65536
LCG_A_HI == 25
LCG_A_LO == 26125
LCG_C_HI == 15470
LCG_C_LO == 62303

\* A faulty variant: the carry out of the low half is dropped.
nextU32_noCarry(s) ==
  <<(s[1] * LCG_A_LO + s[2] * LCG_A_HI + LCG_C_HI) % HALF,
    (s[2] * LCG_A_LO + LCG_C_LO) % HALF>>

nextU32(s) ==
  With(s[2] * LCG_A_LO + LCG_C_LO, LAMBDA t0 :
    <<(s[1] * LCG_A_LO + s[2] * LCG_A_HI + LCG_C_HI + (t0 \div HALF)) % HALF,
      t0 % HALF>>)

\* (hi * 65536 + lo) % span, for a small span.
U32Mod(s, span) == ((s[1] % span) * (HALF % span) + s[2]) % span

\* RNG.int: <<result, state after the draw>>.
rngInt(s, min, maxInclusive) ==
  With(nextU32(s), LAMBDA n : <<min + U32Mod(n, maxInclusive - min + 1), n>>)

\* RNG.pick on a non-empty array.
rngPick(s, arr) ==
  With(rngInt(s, 0, Len(arr) - 1), LAMBDA r : <<arr[r[1] + 1], r[2]>>)

\* The value Date.now() ^ ... gives the seed: one 32-bit number.
Seeds == {<<0, 3>>}

(***************************************************************************)
(* Snake: [segments, direction, nextDirection], head first.                *)
(***************************************************************************)
NewSnake(x, y, dir) ==
  [segments |-> <<<<x, y>>, <<x - dir[1], y - dir[2]>>>>,
   direction |-> dir,
   nextDirection |-> dir]

\* A faulty variant: the turn is taken without the reversal check.
setDirection_anyTurn(sn, dx, dy) ==
  [sn EXCEPT !.nextDirection = <<dx, dy>>]

setDirection(sn, dx, dy) ==
  IF dx = -sn.direction[1] /\ dy = -sn.direction[2] THEN sn
  ELSE [sn EXCEPT !.nextDirection = <<dx, dy>>]

step(sn) ==
  LET d == sn.nextDirection
      head == sn.segments[1]
      newHead == <<head[1] + d[1], head[2] + d[2]>>
  IN [sn EXCEPT !.direction = d,
                !.segments = <<newHead>> \o SubSeq(sn.segments, 1, Len(sn.segments) - 1)]

grow(sn) ==
  [sn EXCEPT !.segments = Append(sn.segments, sn.segments[Len(sn.segments)])]

\* A faulty variant: the truncation has no floor but the head.
shrink_noFloor(sn, amount, minLen) ==
  [sn EXCEPT !.segments = SubSeq(sn.segments, 1, Max(1, Len(sn.segments) - amount))]

shrink(sn, amount, minLen) ==
  LET target == Max(minLen, Len(sn.segments) - amount)
  IN [sn EXCEPT !.segments =
        IF target <= Len(sn.segments) THEN SubSeq(sn.segments, 1, target)
        ELSE sn.segments]

getSlotSpawn(slot, cols, rows) ==
  LET left == 1
      top == 1
      right == cols - 2
      bottom == rows - 2
  IN CASE slot = 0 -> [x |-> left, y |-> top, dir |-> <<1, 0>>]
       [] slot = 1 -> [x |-> right, y |-> top, dir |-> <<-1, 0>>]
       [] slot = 2 -> [x |-> right, y |-> bottom, dir |-> <<-1, 0>>]
       [] slot = 3 -> [x |-> left, y |-> bottom, dir |-> <<1, 0>>]
       [] OTHER -> [x |-> left, y |-> top, dir |-> <<1, 0>>]


(***************************************************************************)
(* The controller.  Its fields are the variables below; the handlers are   *)
(* written as operators on the record `This` of all fields, because they   *)
(* call one another, and every action stores the record its handler        *)
(* returns.                                                                *)
(*   players : id -> [ready, score, isHost]                                *)
(*   runtime : id -> [snake, desiredDir, speedUntilTick, slowUntilTick,    *)
(*                    ghostUntilTick, moveAcc, alive, respawnAtTick]       *)
(*   moveAcc is in hundredths of a step.                                   *)
(*   out     : the lifecycle messages (countdown, start, winner) that      *)
(*             api.transmit was given by the handler that ran last, in     *)
(*             order.                                                      *)
(*   hung    : the handler that ran last never returned (a while loop      *)
(*             whose spawn attempt keeps failing).                         *)
(*   pending : the hostLobby / joinLobby call suspended at its await.      *)
(* Beside the controller stand the objects that are checked on their own:  *)
(*   game       : a MultiplayerGame, as far as applyRemoteState uses it.   *)
(*   rngA, rngB : the _seed of two RNG instances.                          *)
(*   calls      : the calls made on them so far, each with what it was     *)
(*                given and what it returned.                              *)
(*   lobby      : the timer-based lobby controller of main.js.             *)
(***************************************************************************)
VARIABLES isActive, isHost, sessionId, selfId, localReady,
          rosterIds, players, runtime,
          matchState, tick, countdownStartTick, matchStartTick, matchEndTick,
          seed, rng, foods, powerUps,
          snapBuf, lastSnapTick,
          rafId, tickAcc,
          out, hung, pending,
          game, rngA, rngB, calls,
          lobby

controller == <<isActive, isHost, sessionId, selfId, localReady,
          rosterIds, players, runtime,
          matchState, tick, countdownStartTick, matchStartTick, matchEndTick,
          seed, rng, foods, powerUps,
          snapBuf, lastSnapTick,
          rafId, tickAcc,
          out, hung, pending>>

vars == <<controller, game, rngA, rngB, calls, lobby>>

This ==
  [isActive |-> isActive, isHost |-> isHost, sessionId |-> sessionId,
   selfId |-> selfId, localReady |-> localReady,
   rosterIds |-> rosterIds, players |-> players, runtime |-> runtime,
   matchState |-> matchState, tick |-> tick,
   countdownStartTick |-> countdownStartTick,
   matchStartTick |-> matchStartTick, matchEndTick |-> matchEndTick,
   seed |-> seed, rng |-> rng, foods |-> foods, powerUps |-> powerUps,
   snapBuf |-> snapBuf, lastSnapTick |-> lastSnapTick,
   rafId |-> rafId, tickAcc |-> tickAcc,
   out |-> <<>>, hung |-> hung]

Becomes(c) ==
  /\ isActive' = c.isActive
  /\ isHost' = c.isHost
  /\ sessionId' = c.sessionId
  /\ selfId' = c.selfId
  /\ localReady' = c.localReady
  /\ rosterIds' = c.rosterIds
  /\ players' = c.players
  /\ runtime' = c.runtime
  /\ matchState' = c.matchState
  /\ tick' = c.tick
  /\ countdownStartTick' = c.countdownStartTick
  /\ matchStartTick' = c.matchStartTick
  /\ matchEndTick' = c.matchEndTick
  /\ seed' = c.seed
  /\ rng' = c.rng
  /\ foods' = c.foods
  /\ powerUps' = c.powerUps
  /\ snapBuf' = c.snapBuf
  /\ lastSnapTick' = c.lastSnapTick
  /\ rafId' = c.rafId
  /\ tickAcc' = c.tickAcc
  /\ out' = c.out
  /\ hung' = c.hung
  /\ UNCHANGED <<game, rngA, rngB, calls, lobby>>

\* Map helpers (JS Map: has / set / delete).
Has(m, k) == k \in DOMAIN m
Put(m, k, v) == [x \in (DOMAIN m) \cup {k} |-> IF x = k THEN v ELSE m[x]]
Del(m, k) == [x \in (DOMAIN m) \ {k} |-> m[x]]
EmptyMap == [x \in {} |-> 0]

\* The message types `out` keeps; the other transmissions are not recorded.
RecordedTypes == {"countdown", "start", "winner"}

transmit(c, msg) ==
  IF msg.type \in RecordedTypes THEN [c EXCEPT !.out = Append(c.out, msg)] ELSE c

_slotOf(c, clientId) ==
  With(IndexOf(c.rosterIds, clientId), LAMBDA idx : IF idx = -1 THEN 0 ELSE idx)

NewRuntime(x, y, dir) ==
  [snake |-> NewSnake(x, y, dir),
   desiredDir |-> dir,
   speedUntilTick |-> -1,
   slowUntilTick |-> -1,
   ghostUntilTick |-> -1,
   moveAcc |-> 0,
   alive |-> TRUE,
   respawnAtTick |-> NULL]

_ensureRuntimeFor(c, clientId) ==
  IF clientId = NoId THEN c
  ELSE IF Has(c.runtime, clientId) THEN c
  ELSE With(getSlotSpawn(_slotOf(c, clientId), GRID_COLS, GRID_ROWS), LAMBDA spawn :
         [c EXCEPT !.runtime = Put(c.runtime, clientId,
                                   NewRuntime(spawn.x, spawn.y, spawn.dir))])

\* A faulty variant: only the living snakes are looked at, not the items.
_isCellOccupiedHost_ignoresItems(c, x, y) ==
  \E i \in 1..Len(c.rosterIds) :
    LET id == c.rosterIds[i]
    IN /\ Has(c.runtime, id)
       /\ c.runtime[id].alive
       /\ \E k \in 1..Len(c.runtime[id].snake.segments) :
            c.runtime[id].snake.segments[k] = <<x, y>>

_isCellOccupiedHost(c, x, y) ==
  \/ \E i \in 1..Len(c.rosterIds) :
       LET id == c.rosterIds[i]
       IN /\ Has(c.runtime, id)
          /\ c.runtime[id].alive
          /\ \E k \in 1..Len(c.runtime[id].snake.segments) :
               c.runtime[id].snake.segments[k] = <<x, y>>
  \/ \E i \in 1..Len(c.foods) : c.foods[i] = <<x, y>>
  \/ \E i \in 1..Len(c.powerUps) : c.powerUps[i].x = x /\ c.powerUps[i].y = y

\* The loop shared by _spawnFoodHost and _spawnPowerUpHost:
\*   for (tries < 1000) { x = rng.int(..); y = rng.int(..); if occupied continue; ... }
\* up to the first free cell: [rng, cell, ok], trying while tries < limit.
\* The 1000 tries are walked in blocks of 10 and 100 to keep the evaluation
\* stack shallow.
RECURSIVE drawFreeCell(_, _, _, _)
drawFreeCell(c, s, tries, limit) ==
  IF tries >= limit THEN [rng |-> s, cell |-> <<-1, -1>>, ok |-> FALSE]
  ELSE With(rngInt(s, 0, GRID_COLS - 1), LAMBDA rx :
       With(rngInt(rx[2], 0, GRID_ROWS - 1), LAMBDA ry :
         IF _isCellOccupiedHost(c, rx[1], ry[1])
         THEN drawFreeCell(c, ry[2], tries + 1, limit)
         ELSE [rng |-> ry[2], cell |-> <<rx[1], ry[1]>>, ok |-> TRUE]))

RECURSIVE drawFreeCellTens(_, _, _, _)
drawFreeCellTens(c, s, tries, limit) ==
  IF tries >= limit THEN [rng |-> s, cell |-> <<-1, -1>>, ok |-> FALSE]
  ELSE With(drawFreeCell(c, s, tries, Min(tries + 10, limit)), LAMBDA r :
         IF r.ok THEN r ELSE drawFreeCellTens(c, r.rng, tries + 10, limit))

RECURSIVE drawFreeCellHundreds(_, _, _)
drawFreeCellHundreds(c, s, tries) ==
  IF tries >= SPAWN_TRIES THEN [rng |-> s, cell |-> <<-1, -1>>, ok |-> FALSE]
  ELSE With(drawFreeCellTens(c, s, tries, Min(tries + 100, SPAWN_TRIES)), LAMBDA r :
         IF r.ok THEN r ELSE drawFreeCellHundreds(c, r.rng, tries + 100))

\* _spawnFoodHost: [c, ok].
_spawnFoodHost(c) ==
  With(drawFreeCellHundreds(c, c.rng, 0), LAMBDA r :
    IF r.ok
    THEN [c |-> [c EXCEPT !.rng = r.rng, !.foods = Append(c.foods, r.cell)],
          ok |-> TRUE]
    ELSE [c |-> [c EXCEPT !.rng = r.rng], ok |-> FALSE])

PowerUpTypes == <<"speed", "slow", "ghost", "shrink">>

\* _spawnPowerUpHost: [c, ok].
_spawnPowerUpHost(c) ==
  With(drawFreeCellHundreds(c, c.rng, 0), LAMBDA r :
    IF r.ok
    THEN With(rngPick(r.rng, PowerUpTypes), LAMBDA rt :
           [c |-> [c EXCEPT !.rng = rt[2],
                            !.powerUps = Append(c.powerUps,
                               [type |-> rt[1], x |-> r.cell[1], y |-> r.cell[2]])],
            ok |-> TRUE])
    ELSE [c |-> [c EXCEPT !.rng = r.rng], ok |-> FALSE])

\* while (this.powerUps.length < POWERUP_COUNT) this._spawnPowerUpHost();
\* a failed attempt leaves the length as it was, and the loop never ends.
RECURSIVE refillPowerUps(_)
refillPowerUps(c) ==
  IF Len(c.powerUps) >= POWERUP_COUNT THEN c
  ELSE With(_spawnPowerUpHost(c), LAMBDA r :
         IF r.ok THEN refillPowerUps(r.c) ELSE [r.c EXCEPT !.hung = TRUE])

\* while (this.foods.length < FOOD_COUNT) this._spawnFoodHost();
RECURSIVE refillFoods(_)
refillFoods(c) ==
  IF Len(c.foods) >= FOOD_COUNT THEN c
  ELSE With(_spawnFoodHost(c), LAMBDA r :
         IF r.ok THEN refillFoods(r.c) ELSE [r.c EXCEPT !.hung = TRUE])

\* for (let i = 0; i < FOOD_COUNT; i++) this._spawnFoodHost();
RECURSIVE spawnFoodsN(_, _)
spawnFoodsN(c, n) ==
  IF n = 0 THEN c ELSE spawnFoodsN(_spawnFoodHost(c).c, n - 1)

_rebuildWorldHost(c) ==
  refillPowerUps(spawnFoodsN([c EXCEPT !.foods = <<>>, !.powerUps = <<>>], FOOD_COUNT))

(***************************************************************************)
(* Host simulation.                                                        *)
(***************************************************************************)
_isGhostHost(c, id) ==
  IF ~Has(c.runtime, id) \/ ~c.runtime[id].alive THEN FALSE
  ELSE c.tick < c.runtime[id].ghostUntilTick

\* In hundredths: 1.0, 1.5, 0.7 or 1.05, clamped to [0, 3.0].
_getMoveMultiplierHost(c, id) ==
  IF ~Has(c.runtime, id) \/ ~c.runtime[id].alive THEN 0
  ELSE LET rt == c.runtime[id]
           m0 == 100
           m1 == IF c.tick < rt.speedUntilTick THEN (m0 * SPEED_MULT_PCT) \div 100 ELSE m0
           m2 == IF c.tick < rt.slowUntilTick THEN (m1 * SLOW_MULT_PCT) \div 100 ELSE m1
       IN Max(0, Min(MAX_MULT_PCT, m2))

_killPlayerHost(c, id) ==
  IF ~Has(c.runtime, id) \/ ~c.runtime[id].alive THEN c
  ELSE [c EXCEPT
          !.runtime[id].alive = FALSE,
          !.runtime[id].respawnAtTick = c.tick + RESPAWN_DELAY_TICKS,
          !.runtime[id].moveAcc = 0,
          !.runtime[id].snake.segments = <<>>,
          !.players = IF Has(c.players, id)
                      THEN [c.players EXCEPT ![id].score = 0]
                      ELSE c.players]

NoCell == <<-1, -1>>

canPlace(c, x, y) == ~_isCellOccupiedHost(c, x, y)

\* The ring candidates of _respawnPlayerHost, in the order the three loops
\* (r, dx, dy) push them: the first one that can be placed, or NoCell.
RECURSIVE ringScanDy(_, _, _, _, _, _)
ringScanDy(c, px, py, r, dx, dy) ==
  IF dy > r THEN NoCell
  ELSE LET x == px + dx
           y == py + dy
       IN IF (Abs(dx) # r /\ Abs(dy) # r)
             \/ x < 1 \/ x >= GRID_COLS - 1 \/ y < 1 \/ y >= GRID_ROWS - 1
             \/ ~canPlace(c, x, y)
          THEN ringScanDy(c, px, py, r, dx, dy + 1)
          ELSE <<x, y>>

RECURSIVE ringScanDx(_, _, _, _, _)
ringScanDx(c, px, py, r, dx) ==
  IF dx > r THEN NoCell
  ELSE With(ringScanDy(c, px, py, r, dx, -r), LAMBDA hit :
         IF hit # NoCell THEN hit ELSE ringScanDx(c, px, py, r, dx + 1))

RECURSIVE ringScan(_, _, _, _)
ringScan(c, px, py, r) ==
  IF r > RESPAWN_RADIUS THEN NoCell
  ELSE With(ringScanDx(c, px, py, r, -r), LAMBDA hit :
         IF hit # NoCell THEN hit ELSE ringScan(c, px, py, r + 1))

\* The 200 random candidates, drawn from RNG state s: the first one that can
\* be placed, [rng, cell], trying while i < limit (walked in blocks of 20).
RECURSIVE randScan(_, _, _, _)
randScan(c, s, i, limit) ==
  IF i >= limit THEN [rng |-> s, cell |-> NoCell]
  ELSE With(rngInt(s, 1, GRID_COLS - 2), LAMBDA rx :
       With(rngInt(rx[2], 1, GRID_ROWS - 2), LAMBDA ry :
         IF canPlace(c, rx[1], ry[1]) THEN [rng |-> ry[2], cell |-> <<rx[1], ry[1]>>]
         ELSE randScan(c, ry[2], i + 1, limit)))

RECURSIVE randScanBlocks(_, _, _)
randScanBlocks(c, s, i) ==
  IF i >= RESPAWN_RANDOM_TRIES THEN NoCell
  ELSE With(randScan(c, s, i, Min(i + 20, RESPAWN_RANDOM_TRIES)), LAMBDA r :
         IF r.cell # NoCell THEN r.cell ELSE randScanBlocks(c, r.rng, i + 20))

\* n draws of the RNG, walked in blocks of 20.
RECURSIVE rngSkipBlock(_, _)
rngSkipBlock(s, n) ==
  IF n = 0 THEN s
  ELSE With(nextU32(s), LAMBDA s1 :
         IF s1[1] >= 0 THEN rngSkipBlock(s1, n - 1) ELSE s1)

RECURSIVE rngSkip(_, _)
rngSkip(s, n) ==
  IF n <= 20 THEN rngSkipBlock(s, n)
  ELSE With(rngSkipBlock(s, 20), LAMBDA s1 :
         IF s1[1] >= 0 THEN rngSkip(s1, n - 20) ELSE s1)

placeSnake(c, id, x, y, dir) ==
  [c EXCEPT !.runtime[id] = NewRuntime(x, y, dir)]

\* for (const c of candidates) if (canPlace(c.x, c.y)) ...: the preferred cell,
\* then the ring, then the random cells.
firstCandidate(c, preferred) ==
  IF canPlace(c, preferred.x, preferred.y) THEN <<preferred.x, preferred.y>>
  ELSE With(ringScan(c, preferred.x, preferred.y, 1), LAMBDA ring :
         IF ring # NoCell THEN ring ELSE randScanBlocks(c, c.rng, 0))

\* All candidates are pushed (and the RNG drawn 400 times) before the first
\* one is tried.
_respawnPlayerHost(c, id, force) ==
  IF ~Has(c.runtime, id) THEN c
  ELSE With(getSlotSpawn(_slotOf(c, id), GRID_COLS, GRID_ROWS), LAMBDA preferred :
       With([c EXCEPT !.rng = rngSkip(c.rng, 2 * RESPAWN_RANDOM_TRIES)], LAMBDA c1 :
       With(firstCandidate(c, preferred), LAMBDA cell :
         IF cell # NoCell THEN placeSnake(c1, id, cell[1], cell[2], preferred.dir)
         ELSE IF force THEN placeSnake(c1, id, preferred.x, preferred.y, preferred.dir)
         ELSE c1)))

FirstPowerUpAt(c, cell) ==
  With({i \in 1..Len(c.powerUps) : c.powerUps[i].x = cell[1] /\ c.powerUps[i].y = cell[2]},
       LAMBDA hits :
         IF hits = {} THEN -1 ELSE (CHOOSE i \in hits : \A j \in hits : i <= j) - 1)

FirstFoodAt(c, cell) ==
  With({i \in 1..Len(c.foods) : c.foods[i] = cell}, LAMBDA hits :
    IF hits = {} THEN -1 ELSE (CHOOSE i \in hits : \A j \in hits : i <= j) - 1)

\* A faulty variant: an effect that is still running is prolonged by the
\* duration instead of being set anew.
applyPowerUp_stacks(c, id, type) ==
  CASE type = "speed" ->
         [c EXCEPT !.runtime[id].speedUntilTick =
            Max(c.runtime[id].speedUntilTick, c.tick) + SPEED_TICKS]
    [] type = "slow" ->
         [c EXCEPT !.runtime =
            [pid \in DOMAIN c.runtime |->
               IF pid # id /\ Includes(c.rosterIds, pid) /\ c.runtime[pid].alive
               THEN [c.runtime[pid] EXCEPT !.slowUntilTick =
                       Max(c.runtime[pid].slowUntilTick, c.tick) + SLOW_TICKS]
               ELSE c.runtime[pid]]]
    [] type = "ghost" ->
         [c EXCEPT !.runtime[id].ghostUntilTick =
            Max(c.runtime[id].ghostUntilTick, c.tick) + GHOST_TICKS]
    [] type = "shrink" ->
         [c EXCEPT !.runtime[id].snake =
            shrink(c.runtime[id].snake, SHRINK_AMOUNT, MIN_SNAKE_LEN)]
    [] OTHER -> c

\* A faulty variant: SLOW is applied to every living player, the picker too.
applyPowerUp_slowsPicker(c, id, type) ==
  CASE type = "speed" ->
         [c EXCEPT !.runtime[id].speedUntilTick =
            Max(c.runtime[id].speedUntilTick, c.tick + SPEED_TICKS)]
    [] type = "slow" ->
         [c EXCEPT !.runtime =
            [pid \in DOMAIN c.runtime |->
               IF Includes(c.rosterIds, pid) /\ c.runtime[pid].alive
               THEN [c.runtime[pid] EXCEPT !.slowUntilTick =
                       Max(c.runtime[pid].slowUntilTick, c.tick + SLOW_TICKS)]
               ELSE c.runtime[pid]]]
    [] type = "ghost" ->
         [c EXCEPT !.runtime[id].ghostUntilTick =
            Max(c.runtime[id].ghostUntilTick, c.tick + GHOST_TICKS)]
    [] type = "shrink" ->
         [c EXCEPT !.runtime[id].snake =
            shrink(c.runtime[id].snake, SHRINK_AMOUNT, MIN_SNAKE_LEN)]
    [] OTHER -> c

applyPowerUp(c, id, type) ==
  CASE type = "speed" ->
         [c EXCEPT !.runtime[id].speedUntilTick =
            Max(c.runtime[id].speedUntilTick, c.tick + SPEED_TICKS)]
    [] type = "slow" ->
         [c EXCEPT !.runtime =
            [pid \in DOMAIN c.runtime |->
               IF pid # id /\ Includes(c.rosterIds, pid) /\ c.runtime[pid].alive
               THEN [c.runtime[pid] EXCEPT !.slowUntilTick =
                       Max(c.runtime[pid].slowUntilTick, c.tick + SLOW_TICKS)]
               ELSE c.runtime[pid]]]
    [] type = "ghost" ->
         [c EXCEPT !.runtime[id].ghostUntilTick =
            Max(c.runtime[id].ghostUntilTick, c.tick + GHOST_TICKS)]
    [] type = "shrink" ->
         [c EXCEPT !.runtime[id].snake =
            shrink(c.runtime[id].snake, SHRINK_AMOUNT, MIN_SNAKE_LEN)]
    [] OTHER -> c

pickupFood(c, id) ==
  With(FirstFoodAt(c, c.runtime[id].snake.segments[1]), LAMBDA fidx :
    IF c.hung \/ fidx = -1 THEN c
    ELSE refillFoods(
           [c EXCEPT
              !.foods = RemoveAt(c.foods, fidx),
              !.runtime[id].snake = grow(c.runtime[id].snake),
              !.players = IF Has(c.players, id)
                          THEN [c.players EXCEPT ![id].score = @ + SCORE_PER_FOOD]
                          ELSE c.players]))

\* A faulty variant: the picked power-up is not replaced.
pickupPowerUp_noRefill(c, id) ==
  With(FirstPowerUpAt(c, c.runtime[id].snake.segments[1]), LAMBDA pidx :
    IF pidx = -1 THEN c
    ELSE applyPowerUp([c EXCEPT !.powerUps = RemoveAt(c.powerUps, pidx)],
                      id, c.powerUps[pidx + 1].type))

pickupPowerUp(c, id) ==
  With(FirstPowerUpAt(c, c.runtime[id].snake.segments[1]), LAMBDA pidx :
    IF pidx = -1 THEN c
    ELSE refillPowerUps(
           applyPowerUp([c EXCEPT !.powerUps = RemoveAt(c.powerUps, pidx)],
                        id, c.powerUps[pidx + 1].type)))

_handlePickupsHost(c, id) ==
  IF ~Has(c.runtime, id) \/ ~c.runtime[id].alive THEN c
  ELSE pickupFood(pickupPowerUp(c, id), id)

SegCells(segs) == {segs[k] : k \in 1..Len(segs)}

nextHeadOf(c, id) ==
  LET sn == c.runtime[id].snake
  IN <<sn.segments[1][1] + sn.nextDirection[1], sn.segments[1][2] + sn.nextDirection[2]>>

OutOfBounds(cell) ==
  cell[1] < 0 \/ cell[1] >= GRID_COLS \/ cell[2] < 0 \/ cell[2] >= GRID_ROWS

SnakeLen(c, id) == Len(c.runtime[id].snake.segments)

\* A faulty variant: the boundary check spares a ghosted mover.
wallDeaths_sparesGhost(c, active) ==
  {id \in active : OutOfBounds(nextHeadOf(c, id)) /\ ~_isGhostHost(c, id)}

\* The movers that the boundary check of a sub-step marks.
wallDeaths(c, active) == {id \in active : OutOfBounds(nextHeadOf(c, id))}

\* The movers that the head-to-head pass of a sub-step marks.
headToHeadDeaths(c, inb) ==
  {id \in inb :
     With({j \in inb : nextHeadOf(c, j) = nextHeadOf(c, id)}, LAMBDA ids :
     With(CHOOSE n \in {SnakeLen(c, j) : j \in ids} : \A j \in ids : SnakeLen(c, j) <= n,
          LAMBDA maxLen :
            /\ Cardinality(ids) >= 2
            /\ ~(\E j \in ids : _isGhostHost(c, j))
            /\ (Cardinality({j \in ids : SnakeLen(c, j) = maxLen}) >= 2
                \/ SnakeLen(c, id) < maxLen)))}

\* occupied, after the tails of the movers were deleted from it.
occupiedCells(c, active) ==
  LET all == UNION {SegCells(c.runtime[id].snake.segments) :
                      id \in {j \in SegCells(c.rosterIds) :
                                Has(c.runtime, j) /\ c.runtime[j].alive}}
      tailVacates == {c.runtime[id].snake.segments[SnakeLen(c, id)] : id \in active}
  IN all \ tailVacates

bodyDeaths(c, active, toDie) ==
  {id \in active \ toDie :
     ~_isGhostHost(c, id) /\ nextHeadOf(c, id) \in occupiedCells(c, active)}

RECURSIVE stepMovers(_, _, _, _)
stepMovers(c, movers, i, toDie) ==
  IF i > Len(movers) \/ c.hung THEN c
  ELSE LET id == movers[i]
       IN IF id \in toDie \/ ~Has(c.runtime, id) \/ ~c.runtime[id].alive
          THEN stepMovers(c, movers, i + 1, toDie)
          ELSE LET c1 == [c EXCEPT !.runtime[id].snake = step(c.runtime[id].snake)]
               IN stepMovers(_handlePickupsHost(c1, id), movers, i + 1, toDie)

RECURSIVE killAll(_, _)
killAll(c, ids) ==
  IF ids = {} THEN c
  ELSE LET id == CHOOSE x \in ids : TRUE
       IN killAll(_killPlayerHost(c, id), ids \ {id})

\* A faulty variant: every living player is treated as a mover.
_simulateHostSubstep_everyone(c, movers) ==
  With({id \in SegCells(c.rosterIds) : Has(c.runtime, id) /\ c.runtime[id].alive},
       LAMBDA active :
  With(wallDeaths(c, active), LAMBDA wall :
  With(wall \cup headToHeadDeaths(c, active \ wall), LAMBDA toDie1 :
  With(toDie1 \cup bodyDeaths(c, active, toDie1), LAMBDA toDie :
    stepMovers(killAll(c, toDie), c.rosterIds, 1, toDie)))))

_simulateHostSubstep(c, movers) ==
  With({id \in SegCells(movers) : Has(c.runtime, id) /\ c.runtime[id].alive}, LAMBDA active :
  With(wallDeaths(c, active), LAMBDA wall :
  With(wall \cup headToHeadDeaths(c, active \ wall), LAMBDA toDie1 :
  With(toDie1 \cup bodyDeaths(c, active, toDie1), LAMBDA toDie :
    stepMovers(killAll(c, toDie), movers, 1, toDie)))))

RECURSIVE respawnDue(_, _)
respawnDue(c, i) ==
  IF i > Len(c.rosterIds) THEN c
  ELSE LET id == c.rosterIds[i]
       IN IF /\ Has(c.runtime, id)
             /\ ~c.runtime[id].alive
             /\ c.runtime[id].respawnAtTick # NULL
             /\ c.tick >= c.runtime[id].respawnAtTick
          THEN respawnDue(_respawnPlayerHost(c, id, FALSE), i + 1)
          ELSE respawnDue(c, i + 1)

AliveRoster(c) ==
  SelectSeq(c.rosterIds, LAMBDA id : Has(c.runtime, id) /\ c.runtime[id].alive)

applyDesiredDirs(c) ==
  [c EXCEPT !.runtime =
     [id \in DOMAIN c.runtime |->
        IF Includes(c.rosterIds, id) /\ c.runtime[id].alive
        THEN [c.runtime[id] EXCEPT !.snake =
                setDirection(c.runtime[id].snake,
                             c.runtime[id].desiredDir[1], c.runtime[id].desiredDir[2])]
        ELSE c.runtime[id]]]

\* A faulty variant: the sum is rounded to the nearest whole step.
stepsOf_rounded(c, id) ==
  (c.runtime[id].moveAcc + _getMoveMultiplierHost(c, id) + 50) \div 100

\* steps = floor(moveAcc + mult), for the players alive at this point.
stepsOf(c, id) == (c.runtime[id].moveAcc + _getMoveMultiplierHost(c, id)) \div 100

accumulateMoves(c) ==
  [c EXCEPT !.runtime =
     [id \in DOMAIN c.runtime |->
        IF Includes(c.rosterIds, id) /\ c.runtime[id].alive
        THEN [c.runtime[id] EXCEPT !.moveAcc =
                (c.runtime[id].moveAcc + _getMoveMultiplierHost(c, id)) % 100]
        ELSE c.runtime[id]]]

RECURSIVE runSubsteps(_, _, _, _, _)
runSubsteps(c, ids, steps, sub, maxSteps) ==
  IF sub >= maxSteps \/ c.hung THEN c
  ELSE LET movers == SelectSeq(ids, LAMBDA id : steps[id] > sub)
       IN IF movers = <<>> THEN runSubsteps(c, ids, steps, sub + 1, maxSteps)
          ELSE runSubsteps(_simulateHostSubstep(c, movers), ids, steps, sub + 1, maxSteps)

maxStepsOf(steps) ==
  IF DOMAIN steps = {} THEN 0
  ELSE CHOOSE n \in {steps[id] : id \in DOMAIN steps} :
         \A id \in DOMAIN steps : steps[id] <= n

_simulateHostOneTick(c) ==
  With(applyDesiredDirs(respawnDue(c, 1)), LAMBDA c2 :
  With(AliveRoster(c2), LAMBDA ids :
  With([id \in SegCells(ids) |-> stepsOf(c2, id)], LAMBDA steps :
    runSubsteps(accumulateMoves(c2), ids, steps, 0, maxStepsOf(steps)))))

_buildSnapshotHost(c) ==
  [tick |-> c.tick,
   matchState |-> c.matchState,
   matchStartTick |-> c.matchStartTick,
   matchEndTick |-> c.matchEndTick,
   foods |-> c.foods,
   powerUps |-> c.powerUps,
   winner |-> NoId,
   players |->
     [i \in 1..Len(c.rosterIds) |->
        LET id == c.rosterIds[i]
            hasP == Has(c.players, id)
            hasR == Has(c.runtime, id)
        IN [id |-> id,
            slot |-> _slotOf(c, id),
            ready |-> IF hasP THEN c.players[id].ready ELSE FALSE,
            score |-> IF hasP THEN c.players[id].score ELSE 0,
            alive |-> IF hasR THEN c.runtime[id].alive ELSE FALSE,
            respawnAtTick |-> IF hasR THEN c.runtime[id].respawnAtTick ELSE NULL,
            speedUntilTick |-> IF hasR THEN c.runtime[id].speedUntilTick ELSE -1,
            slowUntilTick |-> IF hasR THEN c.runtime[id].slowUntilTick ELSE -1,
            ghostUntilTick |-> IF hasR THEN c.runtime[id].ghostUntilTick ELSE -1,
            segments |-> IF hasR THEN c.runtime[id].snake.segments ELSE <<>>]]]

\* The payload of _broadcastRoster: the roster in the host's order.
rosterMessage(c) ==
  [type |-> "roster",
   ids |-> c.rosterIds,
   players |->
     [i \in 1..Len(c.rosterIds) |->
        LET id == c.rosterIds[i]
            hasP == Has(c.players, id)
        IN [id |-> id,
            ready |-> IF hasP THEN c.players[id].ready ELSE FALSE,
            score |-> IF hasP THEN c.players[id].score ELSE 0,
            isHost |-> IF hasP THEN c.players[id].isHost ELSE FALSE]]]

_broadcastRoster(c) ==
  IF ~c.isHost THEN c
  ELSE transmit(c, rosterMessage(c))

\* A faulty variant: an unstable sort, which puts the later of two equal
\* scores first.
RECURSIVE insertByScore_unstable(_, _)
insertByScore_unstable(sorted, e) ==
  IF sorted = <<>> THEN <<e>>
  ELSE IF Head(sorted).score > e.score
       THEN <<Head(sorted)>> \o insertByScore_unstable(Tail(sorted), e)
       ELSE <<e>> \o sorted

\* scores.sort((a, b) => b.score - a.score): a stable insertion sort.
RECURSIVE insertByScore(_, _)
insertByScore(sorted, e) ==
  IF sorted = <<>> THEN <<e>>
  ELSE IF Head(sorted).score >= e.score
       THEN <<Head(sorted)>> \o insertByScore(Tail(sorted), e)
       ELSE <<e>> \o sorted

RECURSIVE sortByScoreDesc(_, _, _)
sortByScoreDesc(arr, i, acc) ==
  IF i > Len(arr) THEN acc
  ELSE sortByScoreDesc(arr, i + 1, insertByScore(acc, arr[i]))

RECURSIVE respawnAll(_, _, _)
respawnAll(c, ids, i) ==
  IF i > Len(ids) THEN c
  ELSE respawnAll(_respawnPlayerHost(c, ids[i], TRUE), ids, i + 1)

\* The countdown branch of _hostTick, once the countdown has elapsed; newSeed
\* is (Date.now() ^ this.seed) >>> 0.
startMatchHost(c, newSeed) ==
  With(_rebuildWorldHost(
         [c EXCEPT
            !.matchState = "running",
            !.matchStartTick = c.tick,
            !.matchEndTick = c.tick + MATCH_DURATION_TICKS,
            !.players = [id \in DOMAIN c.players |->
                           IF Includes(c.rosterIds, id)
                           THEN [c.players[id] EXCEPT !.score = 0]
                           ELSE c.players[id]],
            !.seed = newSeed,
            !.rng = newSeed]),
       LAMBDA c2 :
         IF c2.hung THEN c2
         ELSE With(respawnAll(c2, c2.rosterIds, 1), LAMBDA c3 :
                _broadcastRoster(
                  transmit(c3, [type |-> "start",
                                startTick |-> c3.matchStartTick,
                                endTick |-> c3.matchEndTick,
                                seed |-> c3.seed]))))

countdownBranch(c, newSeed) ==
  IF c.matchState # "countdown" THEN c
  ELSE LET elapsed == c.tick - (IF c.countdownStartTick = NULL THEN c.tick
                                ELSE c.countdownStartTick)
           remaining == Max(0, COUNTDOWN_TICKS - elapsed)
       IN IF remaining <= 0 THEN startMatchHost(c, newSeed) ELSE c

runningBranch(c) ==
  IF c.hung \/ c.matchState # "running" THEN c
  ELSE IF c.tick >= (IF c.matchEndTick = NULL THEN 0 ELSE c.matchEndTick)
       THEN [c EXCEPT !.matchState = "ended"]
       ELSE _simulateHostOneTick(c)

endedBranch(c) ==
  With(sortByScoreDesc(
         [i \in 1..Len(c.rosterIds) |->
            [id |-> c.rosterIds[i],
             score |-> IF Has(c.players, c.rosterIds[i])
                       THEN c.players[c.rosterIds[i]].score ELSE 0]],
         1, <<>>),
       LAMBDA scores :
         With(IF scores = <<>> THEN NoId ELSE scores[1].id, LAMBDA winner :
           transmit(
             transmit(c, [type |-> "snapshot",
                          snapshot |-> [_buildSnapshotHost(c) EXCEPT
                                          !.matchState = "ended", !.winner = winner]]),
             [type |-> "winner", winner |-> winner, scores |-> scores])))

_hostTick(c, newSeed) ==
  With(runningBranch(countdownBranch(c, newSeed)), LAMBDA c2 :
    IF c2.hung THEN c2
    ELSE IF c2.matchState = "ended" THEN endedBranch(c2)
    ELSE transmit(c2, [type |-> "snapshot", snapshot |-> _buildSnapshotHost(c2)]))

\* A faulty variant: what is left of the accumulated time after a tick is
\* dropped.
RECURSIVE tickLoop_dropsRest(_, _)
tickLoop_dropsRest(c, newSeed) ==
  IF c.tickAcc < TICK_MS \/ c.hung THEN c
  ELSE LET c1 == [c EXCEPT !.tickAcc = 0, !.tick = c.tick + 1]
       IN tickLoop_dropsRest(IF c1.isHost THEN _hostTick(c1, newSeed) ELSE c1, newSeed)

RECURSIVE tickLoop(_, _)
tickLoop(c, newSeed) ==
  IF c.tickAcc < TICK_MS \/ c.hung THEN c
  ELSE LET c1 == [c EXCEPT !.tickAcc = c.tickAcc - TICK_MS, !.tick = c.tick + 1]
       IN tickLoop(IF c1.isHost THEN _hostTick(c1, newSeed) ELSE c1, newSeed)

_tickUpdate(c, dt, newSeed) ==
  tickLoop([c EXCEPT !.tickAcc = c.tickAcc + dt], newSeed)

(***************************************************************************)
(* Lobby, roster and session.                                              *)
(***************************************************************************)
NewPlayer(host) == [ready |-> FALSE, score |-> 0, isHost |-> host]

\* newSeed is (Date.now() ^ ((Math.random() * 0xffffffff) >>> 0)) >>> 0.
_resetAllState(c, newSeed) ==
  [c EXCEPT
     !.isActive = FALSE, !.isHost = FALSE,
     !.sessionId = NoSession, !.selfId = NoId, !.localReady = FALSE,
     !.matchState = "idle", !.tick = 0,
     !.countdownStartTick = NULL, !.matchStartTick = NULL, !.matchEndTick = NULL,
     !.rosterIds = <<>>, !.players = EmptyMap, !.runtime = EmptyMap,
     !.foods = <<>>, !.powerUps = <<>>,
     !.snapBuf = <<>>, !.lastSnapTick = 0,
     !.seed = newSeed, !.rng = newSeed,
     !.tickAcc = 0]

_startLoops(c) == IF c.rafId THEN c ELSE [c EXCEPT !.rafId = TRUE]

\* A faulty variant: the animation frame request is not cancelled.
_stopLoops_keepsFrame(c) == [c EXCEPT !.tickAcc = 0]

_stopLoops(c) == [c EXCEPT !.rafId = FALSE, !.tickAcc = 0]

leave(c, newSeed) == _resetAllState(_stopLoops(c), newSeed)

\* A faulty variant: the roster takes a player however many it holds.
_addToRosterHost_noCap(c, clientId) ==
  IF Includes(c.rosterIds, clientId) THEN c
  ELSE _ensureRuntimeFor(
         [c EXCEPT !.rosterIds = Append(c.rosterIds, clientId),
                   !.players = IF Has(c.players, clientId) THEN c.players
                               ELSE Put(c.players, clientId, NewPlayer(FALSE))],
         clientId)

_addToRosterHost(c, clientId) ==
  IF Includes(c.rosterIds, clientId) THEN c
  ELSE IF Len(c.rosterIds) >= MAX_PLAYERS THEN c
  ELSE LET c1 == [c EXCEPT
                    !.rosterIds = Append(c.rosterIds, clientId),
                    !.players = IF Has(c.players, clientId) THEN c.players
                                ELSE Put(c.players, clientId, NewPlayer(FALSE))]
       IN _ensureRuntimeFor(c1, clientId)

_tryStartCountdownIfAllReady(c) ==
  IF ~c.isHost THEN c
  ELSE IF c.matchState # "lobby" THEN c
  ELSE IF Len(c.rosterIds) = 0 THEN c
  ELSE IF ~(\A i \in 1..Len(c.rosterIds) :
              Has(c.players, c.rosterIds[i]) /\ c.players[c.rosterIds[i]].ready)
       THEN c
  ELSE transmit([c EXCEPT !.matchState = "countdown",
                          !.countdownStartTick = c.tick],
                [type |-> "countdown", startTick |-> c.tick])

toggleReady(c) ==
  IF ~c.isActive THEN c
  ELSE LET r == ~c.localReady
           c1 == [c EXCEPT
                    !.localReady = r,
                    !.players = IF Has(c.players, c.selfId)
                                THEN [c.players EXCEPT ![c.selfId].ready = r]
                                ELSE c.players]
           c2 == transmit(c1, [type |-> "ready", ready |-> r])
       IN IF c2.isHost THEN _tryStartCountdownIfAllReady(c2) ELSE c2

_rematchToLobbySameSession(c) ==
  IF ~c.isActive THEN c
  ELSE LET c1 == [c EXCEPT
                    !.matchState = "lobby",
                    !.countdownStartTick = NULL,
                    !.matchStartTick = NULL,
                    !.matchEndTick = NULL,
                    !.localReady = FALSE,
                    !.players = [id \in DOMAIN c.players |->
                                   IF Includes(c.rosterIds, id)
                                   THEN [c.players[id] EXCEPT !.ready = FALSE]
                                   ELSE c.players[id]]]
       IN IF c1.isHost THEN _broadcastRoster(c1) ELSE c1

\* hostLobby up to its await.
hostLobbyBegin(c, newSeed) ==
  [_resetAllState(c, newSeed) EXCEPT
     !.isActive = TRUE, !.isHost = TRUE, !.matchState = "lobby"]

\* hostLobby after api.host() resolved with {session, clientId}.
hostLobbyResolved(c, session, clientId) ==
  With(_rebuildWorldHost(
         _ensureRuntimeFor(
           [c EXCEPT
              !.sessionId = session,
              !.selfId = clientId,
              !.rosterIds = <<clientId>>,
              !.players = Put(c.players, clientId, NewPlayer(TRUE))],
           clientId)),
       LAMBDA c2 :
         IF c2.hung THEN c2
         ELSE _startLoops(_broadcastRoster(transmit(c2, [type |-> "hello"]))))

\* joinLobby up to its await.
joinLobbyBegin(c, newSeed) ==
  [_resetAllState(c, newSeed) EXCEPT
     !.isActive = TRUE, !.isHost = FALSE, !.matchState = "lobby"]

RECURSIVE joinAddPlayers(_, _, _, _)
joinAddPlayers(c, i, hostId, clientId) ==
  IF i > Len(c.rosterIds) THEN c
  ELSE LET id == c.rosterIds[i]
           c1 == IF Has(c.players, id) THEN c
                 ELSE [c EXCEPT !.players = Put(c.players, id, NewPlayer(id = hostId))]
       IN joinAddPlayers(_ensureRuntimeFor(c1, id), i + 1, hostId, clientId)

\* joinLobby after api.join() resolved with {session, clientId, host, clients}.
joinLobbyResolved(c, session, clientId, hostId, clients) ==
  LET ids == <<hostId>> \o clients \o <<clientId>>
      c1 == [c EXCEPT
               !.sessionId = session,
               !.selfId = clientId,
               !.rosterIds = Slice(dedupe(ids), MAX_PLAYERS)]
      c2 == joinAddPlayers(c1, 1, hostId, clientId)
  IN _startLoops(transmit(c2, [type |-> "hello"]))

handleKeyDown(c, key) ==
  LET dir == keyToDir(key)
  IN IF dir = <<0, 0>> THEN c
     ELSE transmit(
            IF Has(c.runtime, c.selfId)
            THEN [c EXCEPT !.runtime[c.selfId].desiredDir = dir]
            ELSE c,
            [type |-> "input", tick |-> c.tick, dir |-> dir])

_onPeerJoined(c, clientId) ==
  IF clientId = NoId THEN c
  ELSE IF c.isHost THEN _broadcastRoster(_addToRosterHost(c, clientId))
  ELSE c

_onPeerLeft(c, clientId) ==
  IF clientId = NoId THEN c
  ELSE LET idx == IndexOf(c.rosterIds, clientId)
           c1 == [c EXCEPT
                    !.rosterIds = IF idx # -1 THEN RemoveAt(c.rosterIds, idx)
                                  ELSE c.rosterIds,
                    !.players = Del(c.players, clientId),
                    !.runtime = Del(c.runtime, clientId)]
       IN IF c1.isHost THEN _broadcastRoster(c1) ELSE c1

(***************************************************************************)
(* _onGameMessage, one operator per case of its switch.                    *)
(***************************************************************************)
onHello(c, from) ==
  IF Has(c.players, from)
  THEN (IF c.isHost THEN _broadcastRoster(c) ELSE c)
  ELSE IF c.isHost THEN _broadcastRoster(_addToRosterHost(c, from))
  ELSE c

onReady(c, from, ready) ==
  LET c1 == IF Has(c.players, from)
            THEN [c EXCEPT !.players[from].ready = ready]
            ELSE c
  IN IF c1.isHost THEN _tryStartCountdownIfAllReady(c1) ELSE c1

\* A faulty variant: the direction is stored without the isCardinal check.
onInput_storesAny(c, from, dir) ==
  IF ~c.isHost THEN c
  ELSE IF ~Has(c.runtime, from) THEN c
  ELSE [c EXCEPT !.runtime[from].desiredDir = dir]

onInput(c, from, dir) ==
  IF ~c.isHost THEN c
  ELSE IF ~Has(c.runtime, from) THEN c
  ELSE IF ~isCardinal(dir) THEN c
  ELSE [c EXCEPT !.runtime[from].desiredDir = dir]

RECURSIVE rosterAddPlayers(_, _)
rosterAddPlayers(c, i) ==
  IF i > Len(c.rosterIds) THEN c
  ELSE LET id == c.rosterIds[i]
           c1 == IF Has(c.players, id) THEN c
                 ELSE [c EXCEPT !.players = Put(c.players, id, NewPlayer(FALSE))]
       IN rosterAddPlayers(_ensureRuntimeFor(c1, id), i + 1)

RECURSIVE rosterApplyInfos(_, _, _)
rosterApplyInfos(c, infos, i) ==
  IF i > Len(infos) THEN c
  ELSE LET info == infos[i]
       IN IF info.id = NoId \/ ~Has(c.players, info.id)
          THEN rosterApplyInfos(c, infos, i + 1)
          ELSE rosterApplyInfos(
                 [c EXCEPT !.players[info.id] =
                    [ready |-> info.ready, score |-> info.score, isHost |-> info.isHost]],
                 infos, i + 1)

onRoster(c, ids, infos) ==
  IF c.isHost THEN c
  ELSE With(rosterApplyInfos(
              rosterAddPlayers([c EXCEPT !.rosterIds = Slice(ids, MAX_PLAYERS)], 1),
              infos, 1),
            LAMBDA c2 :
              [c2 EXCEPT !.localReady =
                 IF Has(c2.players, c2.selfId) THEN c2.players[c2.selfId].ready
                 ELSE FALSE])

onCountdown(c, startTick) ==
  [c EXCEPT !.matchState = "countdown", !.countdownStartTick = startTick]

onStart(c, startTick, endTick, sd) ==
  [c EXCEPT
     !.matchState = "running",
     !.matchStartTick = startTick,
     !.matchEndTick = endTick,
     !.seed = sd,
     !.snapBuf = <<>>,
     !.lastSnapTick = 0]

\* _snapBuf.sort((a, b) => a.tick - b.tick) after a push: a stable insertion.
RECURSIVE insertByTick(_, _)
insertByTick(buf, e) ==
  IF buf = <<>> THEN <<e>>
  ELSE IF Head(buf).tick <= e.tick
       THEN <<Head(buf)>> \o insertByTick(Tail(buf), e)
       ELSE <<e>> \o buf

RECURSIVE shiftDownTo(_, _)
shiftDownTo(buf, n) == IF Len(buf) > n THEN shiftDownTo(Tail(buf), n) ELSE buf

_pushSnapshot(c, entry) ==
  LET buf == insertByTick(c.snapBuf, entry)
  IN [c EXCEPT !.snapBuf = shiftDownTo(buf, SNAP_BUF_MAX),
               !.lastSnapTick = buf[Len(buf)].tick]

RECURSIVE snapApplyScores(_, _, _)
snapApplyScores(c, sps, i) ==
  IF i > Len(sps) THEN c
  ELSE IF Has(c.players, sps[i].id)
       THEN snapApplyScores([c EXCEPT !.players[sps[i].id].score = sps[i].score], sps, i + 1)
       ELSE snapApplyScores(c, sps, i + 1)

onSnapshot(c, snap) ==
  snapApplyScores(_pushSnapshot(c, [tick |-> snap.tick, snapshot |-> snap]),
                  snap.players, 1)

\* case "winner": only the winner board of the UI is shown.
onWinner(c) == c

(***************************************************************************)
(* Inputs.                                                                 *)
(***************************************************************************)
\* Frame deltas (ms) handed to _raf.
FrameDeltas == {100, 150}

ArrowKeys == {"ArrowUp"}

\* Directions an "input" message can carry: the cardinals, a diagonal, zero.
InputDirs == {<<0, -1>>, <<1, 1>>, <<0, 0>>}

\* payload.clients of a resolved join.
JoinClients == {<<>>, <<2>>}

RosterInfo(ids, ready) ==
  [i \in 1..Len(ids) |->
     [id |-> ids[i], ready |-> ready, score |-> 0, isHost |-> (ids[i] = HostId)]]

\* "roster" messages a client can be sent.
RosterMsgs ==
  {[ids |-> ids, players |-> RosterInfo(ids, r)] :
     ids \in {<<1, 2>>, <<1>>}, r \in BOOLEAN}

\* "countdown" and "start" payloads.
CountdownTicks == {0}
StartMsgs == {[startTick |-> 0, endTick |-> 3, seed |-> <<0, 3>>]}

\* "snapshot" payloads: a later snapshot carries a later score.
SnapshotMsgs ==
  {[tick |-> 1, players |-> <<[id |-> JoinerId, score |-> 10]>>],
   [tick |-> 2, players |-> <<[id |-> JoinerId, score |-> 20]>>]}

\* The transport never reports the controller's own identity as a peer.
Others == AllIds \ {selfId}

\* The seed only matters to a frame that starts the match.
FrameSeeds == IF isHost /\ matchState = "countdown" THEN Seeds ELSE {seed}

(***************************************************************************)
(* Initial state: the constructor.                                         *)
(***************************************************************************)
\* No MultiplayerGame and no RNG instance of its own beside the controller.
NoGame == [mode |-> "none"]

\* The lobby controller of main.js after its constructor (273-294).
\*   api      : this.api is set;  hosting : hostLobby is suspended at its await
\*   players  : clientId -> [ready, slot]
\*   game     : "none" for null, "running" for a game whose isRunning is true
\*   timers   : the value of `seconds` in each interval that has not been cleared
\*   launched : how many games startMultiplayerMatchHost has created
NewLobby ==
  [api |-> FALSE, hosting |-> FALSE, sessionId |-> NoSession, clientId |-> NoId,
   isHost |-> FALSE, players |-> [x \in {} |-> 0], localReady |-> FALSE,
   game |-> "none", timers |-> <<>>, launched |-> 0]

Alone ==
  /\ game = NoGame
  /\ rngA = <<0, 0>>
  /\ rngB = <<0, 0>>
  /\ calls = <<>>
  /\ lobby = NewLobby

Constructed ==
  /\ isActive = FALSE
  /\ isHost = FALSE
  /\ sessionId = NoSession
  /\ selfId = NoId
  /\ localReady = FALSE
  /\ rosterIds = <<>>
  /\ players = EmptyMap
  /\ runtime = EmptyMap
  /\ matchState = "idle"
  /\ tick = 0
  /\ countdownStartTick = NULL
  /\ matchStartTick = NULL
  /\ matchEndTick = NULL
  /\ seed \in Seeds
  /\ rng = seed
  /\ foods = <<>>
  /\ powerUps = <<>>
  /\ snapBuf = <<>>
  /\ lastSnapTick = 0
  /\ rafId = FALSE
  /\ tickAcc = 0
  /\ out = <<>>
  /\ hung = FALSE
  /\ pending = "none"

Init == Constructed /\ Alone

(***************************************************************************)
(* Actions: UI callbacks.                                                  *)
(***************************************************************************)
HostLobby ==
  /\ ~hung
  /\ pending = "none"
  /\ \E sd \in Seeds : Becomes(hostLobbyBegin(This, sd))
  /\ pending' = "host"

HostLobbyResolve ==
  /\ ~hung
  /\ pending = "host"
  /\ Becomes(hostLobbyResolved(This, SessionCode, HostId))
  /\ pending' = "none"

JoinLobby ==
  /\ ~hung
  /\ pending = "none"
  /\ \E sd \in Seeds : Becomes(joinLobbyBegin(This, sd))
  /\ pending' = "join"

JoinLobbyResolve ==
  /\ ~hung
  /\ pending = "join"
  /\ \E clients \in JoinClients :
       Becomes(joinLobbyResolved(This, SessionCode, JoinerId, HostId, clients))
  /\ pending' = "none"

\* api.host() / api.join() rejected: the catch block calls leave(true).
LobbyReject ==
  /\ ~hung
  /\ pending # "none"
  /\ \E sd \in Seeds : Becomes(leave(This, sd))
  /\ pending' = "none"

ToggleReady ==
  /\ ~hung
  /\ isActive
  /\ Becomes(toggleReady(This))
  /\ UNCHANGED pending

Leave ==
  /\ ~hung
  /\ \E sd \in Seeds : Becomes(leave(This, sd))
  /\ UNCHANGED pending

Rematch ==
  /\ ~hung
  /\ isActive
  /\ Becomes(_rematchToLobbySameSession(This))
  /\ UNCHANGED pending

KeyDown ==
  /\ ~hung
  /\ isActive
  /\ \E key \in ArrowKeys : Becomes(handleKeyDown(This, key))
  /\ UNCHANGED pending

(***************************************************************************)
(* Actions: the animation frame.                                           *)
(***************************************************************************)
Raf ==
  /\ ~hung
  /\ rafId
  /\ \E dt \in FrameDeltas :
       /\ tick + ((tickAcc + dt) \div TICK_MS) <= MaxTick
       /\ \E sd \in FrameSeeds : Becomes(_tickUpdate(This, dt, sd))
  /\ UNCHANGED pending

(***************************************************************************)
(* Actions: the network listener (it returns at once unless isActive; the   *)
(* transport delivers events only inside a session).                       *)
(***************************************************************************)
PeerJoined ==
  /\ ~hung
  /\ isActive
  /\ sessionId # NoSession
  /\ \E id \in Others : Becomes(_onPeerJoined(This, id))
  /\ UNCHANGED pending

PeerLeft ==
  /\ ~hung
  /\ isActive
  /\ sessionId # NoSession
  /\ \E id \in Others : Becomes(_onPeerLeft(This, id))
  /\ UNCHANGED pending

Closed ==
  /\ ~hung
  /\ isActive
  /\ sessionId # NoSession
  /\ \E sd \in Seeds : Becomes(leave(This, sd))
  /\ UNCHANGED pending

OnHello ==
  /\ ~hung
  /\ isActive
  /\ sessionId # NoSession
  /\ \E from \in Others : Becomes(onHello(This, from))
  /\ UNCHANGED pending

OnReady ==
  /\ ~hung
  /\ isActive
  /\ sessionId # NoSession
  /\ \E from \in Others, r \in BOOLEAN : Becomes(onReady(This, from, r))
  /\ UNCHANGED pending

OnInput ==
  /\ ~hung
  /\ isActive
  /\ sessionId # NoSession
  /\ \E from \in Others, dir \in InputDirs : Becomes(onInput(This, from, dir))
  /\ UNCHANGED pending

OnRoster ==
  /\ ~hung
  /\ isActive
  /\ sessionId # NoSession
  /\ \E m \in RosterMsgs : Becomes(onRoster(This, m.ids, m.players))
  /\ UNCHANGED pending

OnCountdown ==
  /\ ~hung
  /\ isActive
  /\ sessionId # NoSession
  /\ \E t \in CountdownTicks : Becomes(onCountdown(This, t))
  /\ UNCHANGED pending

OnStart ==
  /\ ~hung
  /\ isActive
  /\ sessionId # NoSession
  /\ \E m \in StartMsgs : Becomes(onStart(This, m.startTick, m.endTick, m.seed))
  /\ UNCHANGED pending

OnSnapshotOf(m) ==
  /\ ~hung
  /\ isActive
  /\ sessionId # NoSession
  /\ Len(snapBuf) < MaxSnapBuf
  /\ Becomes(onSnapshot(This, m))
  /\ UNCHANGED pending

OnSnapshot == \E m \in SnapshotMsgs : OnSnapshotOf(m)

OnWinner ==
  /\ ~hung
  /\ isActive
  /\ sessionId # NoSession
  /\ Becomes(onWinner(This))
  /\ UNCHANGED pending

(***************************************************************************)
(* The host's broadcasts, as a client receives them.                       *)
(***************************************************************************)
RecvRoster == ~isHost /\ OnRoster

RecvCountdown == ~isHost /\ OnCountdown

RecvStart == ~isHost /\ OnStart

RecvSnapshot == ~isHost /\ OnSnapshot

RecvWinner == ~isHost /\ OnWinner

(***************************************************************************)
(* Spec: the peers follow the protocol, so "roster", "countdown", "start", *)
(* "snapshot" and "winner" come from the host only.                        *)
(***************************************************************************)
Next ==
  \/ HostLobby
  \/ HostLobbyResolve
  \/ JoinLobby
  \/ JoinLobbyResolve
  \/ LobbyReject
  \/ ToggleReady
  \/ Leave
  \/ Rematch
  \/ KeyDown
  \/ Raf
  \/ PeerJoined
  \/ PeerLeft
  \/ Closed
  \/ OnHello
  \/ OnReady
  \/ OnInput
  \/ RecvRoster
  \/ RecvCountdown
  \/ RecvStart
  \/ RecvSnapshot
  \/ RecvWinner

Spec == Init /\ [][Next]_vars

(***************************************************************************)
(* ForgedSpec: a peer of a hosted lobby also sends the host the messages   *)
(* that only a host broadcasts; the host may ask for a rematch.            *)
(***************************************************************************)
ForgedNext ==
  \/ HostLobby
  \/ HostLobbyResolve
  \/ Raf
  \/ PeerJoined
  \/ OnRoster
  \/ OnCountdown
  \/ OnStart
  \/ OnSnapshot
  \/ OnWinner
  \/ Rematch

ForgedSpec == Init /\ [][ForgedNext]_vars


(***************************************************************************)
(* SimSpec: a hosted two-player match in progress.  The snakes have grown  *)
(* and met, which a match of MATCH_DURATION_TICKS ticks from Init does not *)
(* reach; the frames of the host then run the simulation on them.          *)
(***************************************************************************)
SimTick == 2

\* A living player's runtime, as the last tick left it.
SimAlive(segs, dir) ==
  [snake |-> [segments |-> segs, direction |-> dir, nextDirection |-> dir],
   desiredDir |-> dir,
   speedUntilTick |-> -1,
   slowUntilTick |-> -1,
   ghostUntilTick |-> -1,
   moveAcc |-> 0,
   alive |-> TRUE,
   respawnAtTick |-> NULL]

\* A killed player's runtime: _killPlayerHost ran at tick at - RESPAWN_DELAY_TICKS.
SimDead(dir, at) ==
  [SimAlive(<<>>, dir) EXCEPT !.alive = FALSE, !.respawnAtTick = at]

\* A board of FOOD_COUNT foods and POWERUP_COUNT power-ups: the first of each
\* is the one given, the others lie apart in the last column.
SimBoard(a, b, scoreA, scoreB, food, puType, pu) ==
  [a |-> a, b |-> b, scoreA |-> scoreA, scoreB |-> scoreB,
   foods |-> [i \in 1..FOOD_COUNT |->
                IF i = 1 THEN food ELSE <<GRID_COLS - 1, GRID_ROWS - i>>],
   powerUps |-> [i \in 1..POWERUP_COUNT |->
                   IF i = 1 THEN [type |-> puType, x |-> pu[1], y |-> pu[2]]
                   ELSE [type |-> puType, x |-> GRID_COLS - 1, y |-> i - 2]]]

\* The boards the match is taken up from.
SimBoards ==
  {\* The host's snake has curled up beside its own body.
   SimBoard(SimAlive(<<<<2, 2>>, <<2, 1>>, <<1, 1>>, <<1, 2>>, <<1, 3>>>>, <<0, 1>>),
            SimAlive(<<<<4, 3>>, <<4, 4>>>>, <<0, -1>>),
            30, 0, <<2, 3>>, "speed", <<4, 2>>),
   \* The host's snake circles a 2 x 2 block and has just eaten: grow() left
   \* it two segments on its tail cell.
   SimBoard(SimAlive(<<<<1, 2>>, <<2, 2>>, <<2, 1>>, <<1, 1>>, <<1, 1>>>>, <<-1, 0>>),
            SimAlive(<<<<4, 3>>, <<4, 4>>>>, <<0, -1>>),
            30, 0, <<0, 4>>, "slow", <<4, 2>>),
   \* Each head is beside the other snake's body.
   SimBoard(SimAlive(<<<<1, 1>>, <<1, 2>>, <<1, 3>>>>, <<0, -1>>),
            SimAlive(<<<<2, 2>>, <<2, 1>>, <<3, 1>>>>, <<0, 1>>),
            10, 10, <<2, 3>>, "ghost", <<1, 0>>),
   \* The peer's head is beside the tail of the host's snake, which has just
   \* eaten.
   SimBoard(SimAlive(<<<<2, 1>>, <<1, 1>>, <<1, 2>>, <<1, 2>>>>, <<1, 0>>),
            SimAlive(<<<<1, 3>>, <<2, 3>>>>, <<-1, 0>>),
            20, 0, <<4, 4>>, "speed", <<4, 0>>),
   \* Two snakes of equal length face each other across one free cell.
   SimBoard(SimAlive(<<<<1, 2>>, <<0, 2>>>>, <<1, 0>>),
            SimAlive(<<<<3, 2>>, <<4, 2>>>>, <<-1, 0>>),
            0, 0, <<0, 0>>, "shrink", <<4, 4>>),
   \* The same, the host's snake one segment longer.
   SimBoard(SimAlive(<<<<1, 2>>, <<0, 2>>, <<0, 1>>>>, <<1, 0>>),
            SimAlive(<<<<3, 2>>, <<4, 2>>>>, <<-1, 0>>),
            10, 0, <<0, 0>>, "shrink", <<4, 4>>),
   \* Two snakes of equal length face each other across the food.
   SimBoard(SimAlive(<<<<1, 2>>, <<0, 2>>>>, <<1, 0>>),
            SimAlive(<<<<3, 2>>, <<4, 2>>>>, <<-1, 0>>),
            0, 0, <<2, 2>>, "ghost", <<4, 4>>),
   \* The head of the host's snake is below a SHRINK.
   SimBoard(SimAlive(<<<<1, 1>>, <<1, 2>>, <<1, 3>>, <<2, 3>>, <<3, 3>>>>, <<0, -1>>),
            SimAlive(<<<<4, 3>>, <<4, 4>>>>, <<0, -1>>),
            30, 0, <<3, 1>>, "shrink", <<1, 0>>),
   \* The peer was slowed at this tick and does not move in the next one.
   SimBoard(SimAlive(<<<<1, 3>>, <<0, 3>>>>, <<1, 0>>),
            [SimAlive(<<<<3, 1>>, <<4, 1>>>>, <<-1, 0>>) EXCEPT
               !.slowUntilTick = SimTick + SLOW_TICKS],
            0, 0, <<2, 3>>, "slow", <<1, 2>>),
   \* The peer is dead and its respawn is due at the next tick.
   SimBoard(SimAlive(<<<<2, 2>>, <<1, 2>>>>, <<1, 0>>),
            SimDead(<<-1, 0>>, SimTick + 1),
            0, 0, <<0, 0>>, "speed", <<4, 4>>),
   \* The peer's respawn is due and the power-up lies behind its spawn cell.
   SimBoard(SimAlive(<<<<2, 2>>, <<1, 2>>>>, <<1, 0>>),
            SimDead(<<-1, 0>>, SimTick + 1),
            0, 0, <<0, 0>>, "speed", <<GRID_COLS - 1, 1>>),
   \* The host's snake fills the board but for the food and the power-up and
   \* has just eaten; the peer is dead.
   SimBoard(SimAlive(<<<<2, 4>>, <<1, 4>>, <<0, 4>>, <<0, 3>>, <<1, 3>>, <<2, 3>>,
                        <<3, 3>>, <<4, 3>>, <<4, 2>>, <<3, 2>>, <<2, 2>>, <<1, 2>>,
                        <<0, 2>>, <<0, 1>>, <<1, 1>>, <<2, 1>>, <<3, 1>>, <<4, 1>>,
                        <<4, 0>>, <<3, 0>>, <<2, 0>>, <<1, 0>>, <<0, 0>>, <<0, 0>>>>,
                     <<1, 0>>),
            SimDead(<<-1, 0>>, SimTick + 2),
            220, 0, <<3, 4>>, "shrink", <<4, 4>>),
   \* The peer is dead and its respawn is due at the tick after the next.
   SimBoard(SimAlive(<<<<2, 2>>, <<1, 2>>>>, <<1, 0>>),
            SimDead(<<-1, 0>>, SimTick + 2),
            0, 0, <<0, 0>>, "speed", <<4, 4>>),
   \* The peer's respawn is due while the host's snake, the food and the
   \* power-up fill every cell a respawn may choose.
   SimBoard(SimAlive(<<<<2, 3>>, <<1, 3>>, <<1, 2>>, <<1, 1>>, <<2, 1>>, <<2, 2>>,
                       <<3, 2>>>>, <<1, 0>>),
            SimDead(<<-1, 0>>, SimTick + 1),
            50, 0, <<3, 3>>, "speed", <<3, 1>>)}

\* An effect picked up one tick ago, or none.
SimEffect(dur) == {-1, SimTick - 1 + dur}

\* The runtime of a board, with the direction last asked for and the effects
\* the player still carries.
SimRuntime(rt, dir, speed, ghost) ==
  [rt EXCEPT !.desiredDir = dir, !.speedUntilTick = speed, !.ghostUntilTick = ghost]

\* What the accumulator of a living player holds between two ticks: nothing at
\* normal speed, nothing or half a step under the speed effect.
SimMoveAcc(rt, speed) == IF rt.alive /\ speed # -1 THEN {0, 50} ELSE {0}

SimInit ==
  /\ isActive = TRUE
  /\ isHost = TRUE
  /\ sessionId = SessionCode
  /\ selfId = HostId
  /\ localReady = TRUE
  /\ rosterIds = <<HostId, JoinerId>>
  /\ matchState = "running"
  /\ tick = SimTick
  /\ countdownStartTick = SimTick - 1 - COUNTDOWN_TICKS
  /\ matchStartTick = SimTick - 1
  /\ matchEndTick = SimTick - 1 + MATCH_DURATION_TICKS
  /\ seed \in Seeds
  /\ rng = seed
  /\ \E bd \in SimBoards :
       /\ players = (HostId :> [ready |-> TRUE, score |-> bd.scoreA, isHost |-> TRUE])
                    @@ (JoinerId :> [ready |-> TRUE, score |-> bd.scoreB, isHost |-> FALSE])
       /\ \E da \in Cardinals, db \in Cardinals,
             ga \in SimEffect(GHOST_TICKS), gb \in SimEffect(GHOST_TICKS),
             sa \in SimEffect(SPEED_TICKS) :
          \E ma \in SimMoveAcc(bd.a, sa) :
            runtime = (HostId :> [SimRuntime(bd.a, da, sa, ga) EXCEPT !.moveAcc = ma])
                      @@ (JoinerId :> SimRuntime(bd.b, db, -1, gb))
       /\ foods = bd.foods
       /\ powerUps = bd.powerUps
  /\ snapBuf = <<>>
  /\ lastSnapTick = 0
  /\ rafId = TRUE
  /\ tickAcc = 0
  /\ out = <<>>
  /\ hung = FALSE
  /\ pending = "none"
  /\ Alone

SimNext == Raf

SimSpec == SimInit /\ [][SimNext]_vars


(***************************************************************************)
(* LobbySpec: a host's lobby that three peers join and leave in any order. *)
(***************************************************************************)
LobbyPeers == {2, 3, 4, 5}

LobbyPeerJoined ==
  /\ ~hung
  /\ isActive
  /\ sessionId # NoSession
  /\ \E id \in LobbyPeers : Becomes(_onPeerJoined(This, id))
  /\ UNCHANGED pending

LobbyPeerLeft ==
  /\ ~hung
  /\ isActive
  /\ sessionId # NoSession
  /\ \E id \in LobbyPeers : Becomes(_onPeerLeft(This, id))
  /\ UNCHANGED pending

LobbyNext ==
  \/ HostLobby
  \/ HostLobbyResolve
  \/ ToggleReady
  \/ LobbyPeerJoined
  \/ LobbyPeerLeft

LobbySpec == Init /\ [][LobbyNext]_vars


(***************************************************************************)
(* GameSpec: a MultiplayerGame that is handed "state" messages.            *)
(*   A message value is [object, number, tickId]: whether it is an object, *)
(*   whether its tickId is a number, and the tickId.  null is NoState.     *)
(*   avgArrivalMs and renderBufferMs are fractions <<n, d>> in lowest      *)
(*   terms; performance.now() is in whole milliseconds.                    *)
(***************************************************************************)
MaxCalls == 4

NoState == [object |-> FALSE, number |-> FALSE, tickId |-> 0]

\* The values a "state" message can carry: tickIds 3, 5 and 7, a tickId that
\* is not a number, and null.
RemoteStates ==
  {[object |-> TRUE, number |-> TRUE, tickId |-> n] : n \in {3, 5, 7}}
    \cup {[object |-> TRUE, number |-> FALSE, tickId |-> 0], NoState}

RECURSIVE GCD(_, _)
GCD(a, b) == IF b = 0 THEN a ELSE GCD(b, a % b)

Fraction(n, d) == With(GCD(n, d), LAMBDA g : <<n \div g, d \div g>>)

\* Math.max(lo, Math.min(hi, q)) for a fraction q.
clampFraction(lo, hi, q) ==
  IF q[1] < lo * q[2] THEN <<lo, 1>>
  ELSE IF q[1] > hi * q[2] THEN <<hi, 1>>
  ELSE q

\* The constructor, as far as applyRemoteState reads it.
NewGame(mode) ==
  [mode |-> mode,
   prevTickState |-> NoState,
   currTickState |-> NoState,
   tickReceivedAt |-> 0,
   prevTickReceivedAt |-> 0,
   avgArrivalMs |-> <<120, 1>>,
   renderBufferMs |-> <<35, 1>>]

\* A faulty variant: a state as old as the current one is taken too.
applyRemoteState_takesEqual(g, state, now) ==
  IF g.mode # "client" THEN g
  ELSE IF ~state.object THEN g
  ELSE IF ~state.number THEN g
  ELSE IF g.currTickState.object /\ state.tickId < g.currTickState.tickId THEN g
  ELSE [g EXCEPT
          !.prevTickState = g.currTickState,
          !.prevTickReceivedAt = g.tickReceivedAt,
          !.currTickState = state,
          !.tickReceivedAt = now]

applyRemoteState(g, state, now) ==
  IF g.mode # "client" THEN g
  ELSE IF ~state.object THEN g
  ELSE IF ~state.number THEN g
  ELSE IF g.currTickState.object /\ state.tickId <= g.currTickState.tickId THEN g
  ELSE LET avg ==
             IF g.tickReceivedAt # 0
             THEN LET clamped == Max(20, Min(400, now - g.tickReceivedAt))
                  IN Fraction(17 * g.avgArrivalMs[1] + 3 * clamped * g.avgArrivalMs[2],
                              20 * g.avgArrivalMs[2])
             ELSE g.avgArrivalMs
       IN [g EXCEPT
             !.avgArrivalMs = avg,
             !.prevTickState = g.currTickState,
             !.prevTickReceivedAt = g.tickReceivedAt,
             !.currTickState = state,
             !.tickReceivedAt = now,
             !.renderBufferMs = clampFraction(20, 90, Fraction(avg[1], 4 * avg[2]))]

GameInit ==
  /\ Constructed
  /\ game \in {NewGame(mode) : mode \in {"client", "host"}}
  /\ rngA = <<0, 0>>
  /\ rngB = <<0, 0>>
  /\ calls = <<>>
  /\ lobby = NewLobby

\* The listener hands the game the state of a "state" message; now is what
\* performance.now() returns during the call.
ApplyRemoteState ==
  /\ Len(calls) < MaxCalls
  /\ \E state \in RemoteStates, now \in {100, 110, 600} :
       /\ now >= game.tickReceivedAt
       /\ game' = applyRemoteState(game, state, now)
       /\ calls' = Append(calls, [state |-> state, applied |-> game' # game])
  /\ UNCHANGED <<controller, rngA, rngB, lobby>>

GameNext == ApplyRemoteState

GameSpec == GameInit /\ [][GameNext]_vars


(***************************************************************************)
(* RngSpec: two RNG instances built from one seed and given the same       *)
(* calls.  An entry of calls is [op, args, a, b]: the method, what it was  *)
(* given, and what the first and the second instance returned.             *)
(***************************************************************************)
\* RNG.pick: null for an empty array, without a draw.
pick(s, arr) == IF Len(arr) = 0 THEN <<"null", s>> ELSE rngPick(s, arr)

\* seed >>> 0 of the constructor: a 32-bit number as <<high half, low half>>.
RngInit ==
  /\ Constructed
  /\ game = NoGame
  /\ \E sd \in {<<0, 0>>, <<0, 3>>, <<4660, 22136>>, <<65535, 65535>>} :
       rngA = sd /\ rngB = sd
  /\ calls = <<>>
  /\ lobby = NewLobby

CallNextU32 ==
  /\ Len(calls) < MaxCalls
  /\ rngA' = nextU32(rngA)
  /\ rngB' = nextU32(rngB)
  /\ calls' = Append(calls, [op |-> "nextU32", args |-> <<>>, a |-> rngA', b |-> rngB'])
  /\ UNCHANGED <<controller, game, lobby>>

CallInt ==
  /\ Len(calls) < MaxCalls
  /\ \E r \in {<<0, 0>>, <<0, 4>>, <<1, 3>>, <<-2, 2>>} :
       /\ rngA' = rngInt(rngA, r[1], r[2])[2]
       /\ rngB' = rngInt(rngB, r[1], r[2])[2]
       /\ calls' = Append(calls, [op |-> "int", args |-> r,
                                  a |-> rngInt(rngA, r[1], r[2])[1],
                                  b |-> rngInt(rngB, r[1], r[2])[1]])
  /\ UNCHANGED <<controller, game, lobby>>

CallPick ==
  /\ Len(calls) < MaxCalls
  /\ \E arr \in {<<>>, PowerUpTypes} :
       /\ rngA' = pick(rngA, arr)[2]
       /\ rngB' = pick(rngB, arr)[2]
       /\ calls' = Append(calls, [op |-> "pick", args |-> arr,
                                  a |-> pick(rngA, arr)[1],
                                  b |-> pick(rngB, arr)[1]])
  /\ UNCHANGED <<controller, game, lobby>>

RngNext ==
  \/ CallNextU32
  \/ CallInt
  \/ CallPick

RngSpec == RngInit /\ [][RngNext]_vars


(***************************************************************************)
(* Properties of the multiplayer controller.                               *)
(***************************************************************************)
HasWinner(msgs) == \E i \in 1..Len(msgs) : msgs[i].type = "winner"

HasStart(msgs, startTick, endTick, sd) ==
  \E i \in 1..Len(msgs) :
    /\ msgs[i].type = "start"
    /\ msgs[i].startTick = startTick
    /\ msgs[i].endTick = endTick
    /\ msgs[i].seed = sd

AllReady(ids, ps) == \A i \in 1..Len(ids) : Has(ps, ids[i]) /\ ps[ids[i]].ready

AliveCount(ids, rts) ==
  Cardinality({id \in SegCells(ids) : Has(rts, id) /\ rts[id].alive})

\* C1: on a non-host peer a "snapshot" whose tick is not greater than the tick
\* of the most recently accepted snapshot is discarded: it is neither inserted
\* into the snapshot buffer nor used to update the scores.
C1_StaleSnapshotDiscarded ==
  [][\A m \in SnapshotMsgs :
       (~isHost /\ snapBuf # <<>> /\ m.tick <= lastSnapTick /\ OnSnapshotOf(m))
         => (snapBuf' = snapBuf /\ players' = players)]_vars

\* C2: the host sends "winner" once per match: a host tick that begins with
\* the match already ended sends no further "winner" message.
C2_WinnerOnce ==
  [][(isHost /\ isHost' /\ Len(rosterIds) >= 2
      /\ matchState = "ended" /\ matchState' = "ended" /\ tick' > tick)
       => ~HasWinner(out')]_vars

\* C3: a "roster", "countdown", "start", "snapshot" or "winner" message that
\* the host receives leaves its lifecycle state, its tick anchors, its seed
\* and its world as they were.
C3_HostAuthority ==
  [][(isHost /\ (OnRoster \/ OnCountdown \/ OnStart \/ OnSnapshot \/ OnWinner))
       => UNCHANGED <<matchState, countdownStartTick, matchStartTick, matchEndTick,
                      seed, rng, foods, powerUps, runtime>>]_vars

\* C4: the host leaves "lobby" for "countdown" only with at least two roster
\* members, all of them ready; a non-host makes that move only on the host's
\* "countdown" message.
C4_CountdownNeedsTwoReady ==
  [][(matchState = "lobby" /\ matchState' = "countdown")
       => IF isHost
          THEN Len(rosterIds') >= 2 /\ AllReady(rosterIds', players')
          ELSE RecvCountdown]_vars

\* C5: while the host counts down, a roster member that becomes un-ready or
\* leaves sends the host back to "lobby".
C5_CountdownAbortable ==
  [][(/\ isHost /\ isHost' /\ sessionId' = sessionId
      /\ matchState = "countdown"
      /\ \E i \in 1..Len(rosterIds) :
           \/ ~Includes(rosterIds', rosterIds[i])
           \/ /\ Has(players, rosterIds[i]) /\ players[rosterIds[i]].ready
              /\ Has(players', rosterIds[i]) /\ ~players'[rosterIds[i]].ready)
       => matchState' = "lobby"]_vars

\* The state _hostTick leaves when it starts the match, before it simulates
\* the first tick.
C6_AtStart == startMatchHost([This EXCEPT !.tick = matchStartTick'], seed')

C6_Fresh(c) ==
  \A i \in 1..Len(c.rosterIds) :
    LET id == c.rosterIds[i]
    IN /\ c.players[id].score = 0
       /\ c.runtime[id].alive
       /\ Len(c.runtime[id].snake.segments) = 2
       /\ c.runtime[id].speedUntilTick = -1
       /\ c.runtime[id].slowUntilTick = -1
       /\ c.runtime[id].ghostUntilTick = -1

\* C6: the host enters "running" from "countdown", at the tick that is
\* COUNTDOWN_TICKS after countdownStartTick; every roster member then has
\* score 0 and a fresh two-segment living snake without effects, and the
\* "start" message carries that tick, that tick + MATCH_DURATION_TICKS and the
\* new seed.
C6_RunningEntry ==
  [][(isHost /\ isHost' /\ matchState # "running" /\ matchState' = "running")
       => /\ matchState = "countdown"
          /\ countdownStartTick # NULL
          /\ matchStartTick' = countdownStartTick + COUNTDOWN_TICKS
          /\ matchEndTick' = matchStartTick' + MATCH_DURATION_TICKS
          /\ HasStart(out', matchStartTick', matchEndTick', seed')
          /\ \A c \in {C6_AtStart} : C6_Fresh(c)]_vars

\* C7: at the end of a host tick a match of two or more players is not left
\* "running" with at most one living player, nor with the tick at matchEndTick.
C7_EndsWhenOneLeft ==
  [][(isHost /\ isHost' /\ tick' > tick /\ matchState' = "running"
      /\ Len(rosterIds') >= 2)
       => (AliveCount(rosterIds', runtime') >= 2 /\ tick' < matchEndTick')]_vars

\* C8: a peer that joins or leaves while the host's match is "running" adds no
\* player to the roster or to the simulation and moves no remaining player to
\* another slot.
C8_RosterFrozenWhileRunning ==
  [][(isHost /\ matchState = "running" /\ (PeerJoined \/ PeerLeft))
       => /\ \A i \in 1..Len(rosterIds') : Includes(rosterIds, rosterIds'[i])
          /\ DOMAIN runtime' \subseteq DOMAIN runtime
          /\ \A i \in 1..Len(rosterIds') :
               IndexOf(rosterIds, rosterIds'[i]) = i - 1]_vars

\* What leave() promises of the state it returns in.
LeftState ==
  /\ ~rafId
  /\ tickAcc = 0
  /\ ~isActive
  /\ matchState = "idle"
  /\ rosterIds = <<>>
  /\ DOMAIN players = {}
  /\ DOMAIN runtime = {}
  /\ foods = <<>>
  /\ powerUps = <<>>
  /\ snapBuf = <<>>

\* C9: from every lifecycle state leave() returns with the loop stopped, the
\* controller inactive and idle, and the roster, players, runtime, foods,
\* power-ups and snapshot buffer empty; a call made in that state changes none
\* of these.
C9_LeaveResets ==
  [][(Leave \/ LobbyReject \/ Closed)
       => /\ LeftState'
          /\ LeftState =>
               UNCHANGED <<rafId, tickAcc, isActive, matchState, rosterIds, players,
                           runtime, foods, powerUps, snapBuf>>]_vars

\* leave() was called while hostLobby or joinLobby awaited the transport.
C9_LeftDuringAwait == LeftState /\ pending # "none"

\* No segment of any snake lies outside the grid.
C10_InBounds ==
  \A id \in DOMAIN runtime :
    \A k \in 1..Len(runtime[id].snake.segments) :
      ~OutOfBounds(runtime[id].snake.segments[k])

\* The next host tick, up to its first sub-step.
C10_TickStart == applyDesiredDirs(respawnDue([This EXCEPT !.tick = tick + 1], 1))

\* The movers of that sub-step whose next head cell is outside the grid.
C10_WallMovers(c) ==
  {id \in SegCells(AliveRoster(c)) :
     /\ stepsOf(c, id) >= 1
     /\ OutOfBounds(nextHeadOf(c, id))}

\* C10: a mover whose next head cell is outside the grid is killed in that
\* sub-step, ghosted or not, and no snake is ever stepped outside the grid.
C10_WallKills ==
  /\ []C10_InBounds
  /\ [][(isHost /\ isHost' /\ matchState = "running"
         /\ tick' = tick + 1 /\ tick + 1 < matchEndTick)
          => \A c \in {C10_TickStart} :
               \A id \in C10_WallMovers(c) :
                 ~runtime'[id].alive /\ runtime'[id].snake.segments = <<>>]_vars

\* A snake died while its ghost effect was still running.
C10_GhostDiesAtWall ==
  /\ isHost
  /\ matchState = "running"
  /\ \E id \in DOMAIN runtime :
       /\ ~runtime[id].alive
       /\ runtime[id].respawnAtTick # NULL
       /\ runtime[id].respawnAtTick - RESPAWN_DELAY_TICKS < runtime[id].ghostUntilTick

(***************************************************************************)
(* The sub-step of a simulated tick, as the properties below read it.      *)
(***************************************************************************)
\* A frame of the host that runs one tick, and in it the simulation.
SimulatedTick ==
  /\ isHost
  /\ isHost'
  /\ matchState = "running"
  /\ tick' = tick + 1
  /\ tick + 1 < matchEndTick
  /\ ~hung'

\* The players that move in the first sub-step of the tick that starts in c.
FirstMovers(c) == {id \in SegCells(AliveRoster(c)) : stepsOf(c, id) >= 1}

\* The cells a snake still holds once it has stepped: those of all its
\* segments but the last.
KeptCells(c, id) ==
  {c.runtime[id].snake.segments[k] : k \in 1..(SnakeLen(c, id) - 1)}

\* The mover's new head lies on one of its own segments that stays.
SelfHit(c, id) == nextHeadOf(c, id) \in KeptCells(c, id)

\* C11: a mover whose new head overlaps one of its own non-head segments that
\* remain occupied after the move is killed in that sub-step, unless its ghost
\* effect is active at that tick: then it survives and moves.
C11_SelfCollision ==
  [][SimulatedTick
       => \A c \in {C10_TickStart} :
            \A id \in FirstMovers(c) :
              SelfHit(c, id)
                => IF _isGhostHost(c, id)
                   THEN stepsOf(c, id) = 1
                          => /\ runtime'[id].alive
                             /\ runtime'[id].snake.segments[1] = nextHeadOf(c, id)
                   ELSE ~runtime'[id].alive]_vars

\* The cells player j still holds once the sub-step is over: all of them while
\* it stands still, all but its last segment's when it moves.
HeldCells(c, j) ==
  IF j \in FirstMovers(c) THEN KeptCells(c, j)
  ELSE SegCells(c.runtime[j].snake.segments)

\* C12: a ghosted mover whose head enters a segment of another living player
\* survives; a mover without ghost whose head enters a cell held by a ghosted
\* living player dies.
C12_GhostAsymmetric ==
  [][SimulatedTick
       => \A c \in {C10_TickStart} :
            \A id \in FirstMovers(c) :
              \A j \in SegCells(AliveRoster(c)) \ {id} :
                /\ (/\ _isGhostHost(c, id)
                    /\ stepsOf(c, id) = 1
                    /\ nextHeadOf(c, id) \in SegCells(c.runtime[j].snake.segments))
                     => runtime'[id].alive
                /\ (/\ ~_isGhostHost(c, id)
                    /\ _isGhostHost(c, j)
                    /\ nextHeadOf(c, id) \in HeldCells(c, j))
                     => ~runtime'[id].alive]_vars

\* The movers whose new head is the cell that id's new head is.
Colliders(c, id) == {j \in FirstMovers(c) : nextHeadOf(c, j) = nextHeadOf(c, id)}

LongestLen(c, ids) ==
  CHOOSE n \in {SnakeLen(c, j) : j \in ids} : \A j \in ids : SnakeLen(c, j) <= n

\* No living player keeps a segment on the cell.
FreeOfBodies(c, cell) ==
  \A j \in SegCells(AliveRoster(c)) : cell \notin HeldCells(c, j)

\* C13: when the new heads of two or more movers fall on the same in-bounds
\* cell in one sub-step, the colliders all die if the longest of them are of
\* equal length; otherwise every shorter one dies and the longest survives.
C13_HeadToHead ==
  [][SimulatedTick
       => \A c \in {C10_TickStart} :
            \A id \in FirstMovers(c) :
              (Cardinality(Colliders(c, id)) >= 2 /\ ~OutOfBounds(nextHeadOf(c, id)))
                => \A n \in {LongestLen(c, Colliders(c, id))} :
                     IF \/ SnakeLen(c, id) < n
                        \/ Cardinality({j \in Colliders(c, id) : SnakeLen(c, j) = n}) >= 2
                     THEN ~runtime'[id].alive
                     ELSE (stepsOf(c, id) = 1 /\ FreeOfBodies(c, nextHeadOf(c, id)))
                            => runtime'[id].alive]_vars

\* A host tick that ends with the match running.
RunningTickEnd == isHost' /\ matchState' = "running" /\ tick' = tick + 1 /\ ~hung'

Idle(c) == {j \in SegCells(c.rosterIds) : j \notin FirstMovers(c)}

\* C15: when a surviving mover's new head lands on a food cell, that food is
\* removed, the mover's snake grows by exactly one segment and its score by
\* exactly SCORE_PER_FOOD; the pickup changes no other player's score or snake.
C15_FoodPickup ==
  [][SimulatedTick
       => \A c \in {C10_TickStart} :
            \A id \in FirstMovers(c) :
              (/\ stepsOf(c, id) = 1
               /\ runtime'[id].alive
               /\ nextHeadOf(c, id) \in SegCells(c.foods))
                => /\ nextHeadOf(c, id) \notin SegCells(foods')
                   /\ Len(runtime'[id].snake.segments) = SnakeLen(c, id) + 1
                   /\ players'[id].score = players[id].score + SCORE_PER_FOOD
                   /\ \A j \in Idle(c) :
                        /\ players'[j].score = players[j].score
                        /\ runtime'[j].snake = c.runtime[j].snake]_vars

\* The type of the power-up on the cell, or "none".
PowerUpTypeAt(c, cell) ==
  With(FirstPowerUpAt(c, cell), LAMBDA i :
    IF i = -1 THEN "none" ELSE c.powerUps[i + 1].type)

\* The mover takes a power-up of the type in the tick: its one step of the
\* tick ends on the power-up's cell, it survives, and it is the first in
\* roster order of the survivors whose new head is that cell.
Picks(c, id, type) ==
  /\ stepsOf(c, id) = 1
  /\ runtime'[id].alive
  /\ PowerUpTypeAt(c, nextHeadOf(c, id)) = type
  /\ \A j \in Colliders(c, id) \ {id} :
       runtime'[j].alive => _slotOf(c, j) > _slotOf(c, id)

\* C16: a SLOW pickup is applied to every other living player and never to
\* the picker: afterwards each other living player's slowUntilTick is in the
\* future, and the picker's slowUntilTick and movement multiplier are as
\* they were.
C16_SlowHitsOthers ==
  [][SimulatedTick
       => \A c \in {C10_TickStart} :
            \A id \in FirstMovers(c) :
              Picks(c, id, "slow")
                => /\ \A j \in SegCells(rosterIds) \ {id} :
                        runtime'[j].alive => runtime'[j].slowUntilTick > tick'
                   /\ FirstMovers(c) = {id}
                        => /\ runtime'[id].slowUntilTick = c.runtime[id].slowUntilTick
                           /\ \A d \in {This'} :
                                _getMoveMultiplierHost(d, id)
                                  = _getMoveMultiplierHost(c, id)]_vars

\* The host's snake took the SLOW beside the peer's snake, which was slowed
\* already: the peer is slowed anew, the host is not.
C16_PeerSlowed ==
  /\ isHost /\ matchState = "running" /\ tick = SimTick + 1
  /\ runtime[HostId].alive /\ runtime[HostId].snake.segments[1] = <<1, 2>>
  /\ runtime[HostId].slowUntilTick = -1
  /\ runtime[JoinerId].alive
  /\ runtime[JoinerId].snake.segments = <<<<3, 1>>, <<4, 1>>>>
  /\ runtime[JoinerId].slowUntilTick = tick + SLOW_TICKS

\* C17: a SPEED, SLOW or GHOST taken at host tick T sets the affected
\* player's expiry tick of that effect to exactly T plus the effect's
\* duration in ticks, whatever the expiry was before.
C17_ExpiryReplaced ==
  [][SimulatedTick
       => \A c \in {C10_TickStart} :
            \A id \in FirstMovers(c) :
              /\ Picks(c, id, "speed")
                   => runtime'[id].speedUntilTick = tick' + SPEED_TICKS
              /\ Picks(c, id, "ghost")
                   => runtime'[id].ghostUntilTick = tick' + GHOST_TICKS
              /\ Picks(c, id, "slow")
                   => \A j \in SegCells(rosterIds) \ {id} :
                        runtime'[j].alive
                          => runtime'[j].slowUntilTick = tick' + SLOW_TICKS]_vars

\* The host's snake took the GHOST above its head, with or without an
\* earlier GHOST still running: the expiry is the same.
C17_GhostTaken ==
  /\ isHost /\ matchState = "running" /\ tick = SimTick + 1
  /\ runtime[HostId].alive
  /\ runtime[HostId].snake.segments = <<<<1, 0>>, <<1, 1>>, <<1, 2>>>>
  /\ runtime[HostId].ghostUntilTick = tick + GHOST_TICKS
  /\ \A i \in 1..Len(powerUps) : <<powerUps[i].x, powerUps[i].y>> # <<1, 0>>

\* The player is dead and its respawn is armed for the tick at.
DeadUntil(id, at) ==
  ~runtime[id].alive /\ runtime[id].respawnAtTick # NULL /\ runtime[id].respawnAtTick = at

\* A fresh runtime: alive, a snake of two segments, no effect, no respawn armed.
FreshRuntime(rt) ==
  /\ rt.alive
  /\ Len(rt.snake.segments) = 2
  /\ rt.speedUntilTick = -1 /\ rt.slowUntilTick = -1 /\ rt.ghostUntilTick = -1
  /\ rt.respawnAtTick = NULL

\* C18: a player killed at host tick T has no segments, is not alive and has
\* its respawn armed for T + RESPAWN_DELAY_TICKS; before that tick it takes no
\* part in the simulation, and at that tick it is alive again with a fresh
\* snake of two segments and no effect timer running.
C18_DeathHandling ==
  [][SimulatedTick
       => \A c \in {C10_TickStart} :
            \A id \in SegCells(rosterIds) :
              /\ (c.runtime[id].alive /\ ~runtime'[id].alive)
                   => /\ runtime'[id].snake.segments = <<>>
                      /\ runtime'[id].respawnAtTick = tick' + RESPAWN_DELAY_TICKS
              /\ (\E at \in (tick + 2)..(tick + RESPAWN_DELAY_TICKS) : DeadUntil(id, at))
                   => /\ runtime'[id] = runtime[id]
                      /\ players'[id] = players[id]
              /\ DeadUntil(id, tick + 1) => FreshRuntime(c.runtime[id])]_vars

\* C19: a respawn that is due during a running match places the player in
\* that tick, by force if no candidate cell is free: the tick never leaves
\* the player dead with an expired respawn timer.
C19_RespawnProgress ==
  [][SimulatedTick
       => \A id \in SegCells(rosterIds) :
            (\E at \in 0..(tick + 1) : DeadUntil(id, at))
              => \/ runtime'[id].alive
                 \/ runtime'[id].respawnAtTick = tick' + RESPAWN_DELAY_TICKS]_vars

\* The score the controller tracks for the player.
TrackedScore(id) == IF Has(players, id) THEN players[id].score ELSE 0

\* The scores list ranks the roster: one entry per roster player with its
\* tracked score, by descending score, equal scores in roster order.
RanksRoster(sc) ==
  /\ Len(sc) = Len(rosterIds)
  /\ \A k \in 1..Len(rosterIds) : \E m \in 1..Len(sc) : sc[m].id = rosterIds[k]
  /\ \A k \in 1..Len(sc) : sc[k].score = TrackedScore(sc[k].id)
  /\ \A k \in 1..Len(sc) : \A m \in (k + 1)..Len(sc) :
       \/ sc[k].score > sc[m].score
       \/ /\ sc[k].score = sc[m].score
          /\ IndexOf(rosterIds, sc[k].id) < IndexOf(rosterIds, sc[m].id)

\* C20: the scores list of a "winner" message is ordered by descending score
\* with ties in roster order, each entry is that player's tracked score, and
\* the announced winner is the first entry, a player of maximal score.
C20_WinnerRanking ==
  \A i \in 1..Len(out) :
    out[i].type = "winner"
      => /\ RanksRoster(out[i].scores)
         /\ out[i].scores # <<>>
         /\ out[i].winner = out[i].scores[1].id
         /\ \A k \in 1..Len(rosterIds) :
              TrackedScore(rosterIds[k]) <= TrackedScore(out[i].winner)

\* The match ended with the peer ahead of the host: the ranking is not the
\* roster order.
C20_PeerWins ==
  /\ isHost /\ matchState = "ended"
  /\ \E i \in 1..Len(out) :
       /\ out[i].type = "winner"
       /\ out[i].winner = JoinerId
       /\ out[i].scores = <<[id |-> JoinerId, score |-> 10], [id |-> HostId, score |-> 0]>>

\* Every direction a runtime holds is one of the four cardinal unit vectors.
StoredDirsCardinal ==
  \A id \in DOMAIN runtime :
    /\ isCardinal(runtime[id].desiredDir)
    /\ isCardinal(runtime[id].snake.direction)
    /\ isCardinal(runtime[id].snake.nextDirection)

\* C21: on the host an "input" message from an identity without a runtime
\* entry, or with a direction that is not a cardinal unit vector, changes
\* nothing, and no runtime ever holds a diagonal or zero direction.
C21_InputDropped ==
  isHost
    => /\ \A from \in AllIds : \A dir \in InputDirs :
            (~Has(runtime, from) \/ ~isCardinal(dir))
              => onInput(This, from, dir) = This
       /\ StoredDirsCardinal

\* The host of a running match whose peer has left: the peer's identity has
\* no runtime entry any more, and its messages still arrive.
C21_PeerRemoved ==
  /\ isHost /\ isActive /\ sessionId # NoSession /\ matchState = "running"
  /\ ~Has(runtime, JoinerId)
  /\ Has(runtime, HostId)

Inverse(d) == <<-d[1], -d[2]>>

\* C22: a snake never reverses into itself: setDirection with the exact
\* inverse of the current direction leaves direction and nextDirection as
\* they are, and the direction a step commits is never the exact inverse of
\* the direction the snake was travelling in.
C22_NoReversal ==
  [][SimulatedTick
       => \A id \in SegCells(rosterIds) :
            (runtime[id].alive /\ runtime'[id].alive)
              => /\ runtime'[id].snake.direction # Inverse(runtime[id].snake.direction)
                 /\ runtime'[id].snake.nextDirection
                      # Inverse(runtime'[id].snake.direction)
                 /\ \A sn \in {runtime[id].snake, runtime'[id].snake} :
                      setDirection(sn, -sn.direction[1], -sn.direction[2]) = sn]_vars

\* A snake that was asked to turn back went straight on.
C22_ReversalRefused ==
  /\ isHost /\ matchState = "running" /\ tick = SimTick + 1
  /\ runtime[HostId].alive
  /\ runtime[HostId].snake.segments = <<<<3, 2>>, <<2, 2>>>>
  /\ runtime[HostId].snake.direction = <<1, 0>>
  /\ runtime[HostId].desiredDir = <<-1, 0>>

\* No mover of the tick takes more than one step, and none ends on a
\* power-up: no power-up is taken and none is put on the board in the tick.
NoPowerUpTaken(c) ==
  \A j \in FirstMovers(c) :
    stepsOf(c, j) = 1 /\ PowerUpTypeAt(c, nextHeadOf(c, j)) = "none"

ItemCells ==
  foods \o [i \in 1..Len(powerUps) |-> <<powerUps[i].x, powerUps[i].y>>]

\* A segment of a living roster player's snake, a food or a power-up lies on
\* the cell.
CellTaken(cell) ==
  \/ \E id \in SegCells(rosterIds) :
       /\ Has(runtime, id) /\ runtime[id].alive
       /\ cell \in SegCells(runtime[id].snake.segments)
  \/ cell \in SegCells(ItemCells)

\* C24: the cell the host places a food or a power-up on is at that moment
\* free of living snakes, foods and power-ups, and no two items of the board
\* share a cell.
C24_PlacementFree ==
  isHost
    => /\ \A r \in {_spawnFoodHost(This)} :
            r.ok => /\ Len(r.c.foods) = Len(foods) + 1
                    /\ SubSeq(r.c.foods, 1, Len(foods)) = foods
                    /\ ~CellTaken(r.c.foods[Len(r.c.foods)])
       /\ \A r \in {_spawnPowerUpHost(This)} :
            r.ok => /\ Len(r.c.powerUps) = Len(powerUps) + 1
                    /\ SubSeq(r.c.powerUps, 1, Len(powerUps)) = powerUps
                    /\ \A p \in {r.c.powerUps[Len(r.c.powerUps)]} :
                         ~CellTaken(<<p.x, p.y>>)
       /\ \A i \in 1..Len(ItemCells) : \A j \in 1..Len(ItemCells) :
            ItemCells[i] = ItemCells[j] => i = j

\* The host's snake ate beside the power-up it did not take: the food was
\* placed anew, away from the power-up and from both snakes.
C24_FoodPlacedAnew ==
  /\ isHost /\ matchState = "running" /\ tick = SimTick + 1
  /\ runtime[HostId].alive /\ runtime[JoinerId].alive
  /\ runtime[HostId].snake.segments = <<<<2, 3>>, <<1, 3>>, <<1, 3>>>>
  /\ powerUps = <<[type |-> "slow", x |-> 1, y |-> 2]>>
  /\ Len(foods) = FOOD_COUNT
  /\ \A i \in 1..Len(foods) : foods[i] # <<2, 3>> /\ foods[i] # <<1, 2>>

\* Every roster member's ready flag is set.
RosterReady(c) ==
  \A i \in 1..Len(c.rosterIds) :
    Has(c.players, c.rosterIds[i]) /\ c.players[c.rosterIds[i]].ready

\* No roster member's ready flag is set.
RosterUnready(c) ==
  \A i \in 1..Len(c.rosterIds) :
    Has(c.players, c.rosterIds[i]) => ~c.players[c.rosterIds[i]].ready

\* The step is the host's rematch request in "ended".
RematchInEnded ==
  /\ isHost /\ isActive /\ matchState = "ended"
  /\ This' = [_rematchToLobbySameSession(This) EXCEPT !.out = <<>>]

\* C25: a rematch request in "ended" returns the host to "lobby" with the
\* same roster and session identifier and every roster member's ready flag
\* cleared, and the host enters "countdown" only with every roster member's
\* ready flag set: no countdown starts before all have readied up again.
C25_RematchToLobby ==
  [][/\ RematchInEnded
          => /\ matchState' = "lobby"
             /\ rosterIds' = rosterIds
             /\ sessionId' = sessionId
             /\ RosterUnready(This')
             /\ ~localReady'
     /\ (isHost /\ isHost' /\ matchState # "countdown" /\ matchState' = "countdown")
          => RosterReady(This')]_vars

\* C26: the ticks advanced and the time left in _tickAcc depend on the sum of
\* the frame deltas only: _tickUpdate(a) followed by _tickUpdate(b) gives the
\* tick and _tickAcc of _tickUpdate(a + b), and 0 <= _tickAcc < TICK_MS after
\* every _tickUpdate.
C26_FrameRateIndependent ==
  /\ 0 <= tickAcc /\ tickAcc < TICK_MS
  /\ rafId
       => \A a \in FrameDeltas : \A b \in FrameDeltas :
            \A split \in {_tickUpdate(_tickUpdate(This, a, seed), b, seed)} :
              \A whole \in {_tickUpdate(This, a + b, seed)} :
                (~split.hung /\ ~whole.hung)
                  => /\ split.tick = whole.tick
                     /\ split.tickAcc = whole.tickAcc
                     /\ whole.tick = tick + ((tickAcc + a + b) \div TICK_MS)
                     /\ whole.tickAcc = (tickAcc + a + b) % TICK_MS

\* A running host between two frames, with half a tick accumulated: a frame
\* of one tick and a half then advances two ticks, two such frames three.
C26_HalfTickLeft ==
  /\ isHost /\ rafId /\ matchState = "running"
  /\ 2 * tickAcc = TICK_MS

\* The host ticks that one frame processes when it comes dt ms after the
\* frame before: each is one call of _hostTick, which simulates while the
\* match is running.
TicksInFrame(dt) == _tickUpdate(This, dt, seed).tick - tick

\* C27: the work of one frame is bounded whatever time has passed since the
\* frame before: after a stall of ten ticks' time, a stall twice as long
\* makes the frame of a running host process no more ticks.
C27_BoundedCatchUp ==
  (isHost /\ rafId /\ matchState = "running")
    => TicksInFrame(20 * TICK_MS) <= TicksInFrame(10 * TICK_MS)


\* The index of an identity in the sorted order of the identities of ids.
SortedIndex(ids, id) ==
  Cardinality({j \in 1..Len(ids) : ids[j] < id})

\* A client that joined the host's session and then received the roster the
\* host sent last.
ClientAfterRoster(id) ==
  With(rosterMessage(This), LAMBDA m :
    onRoster(joinLobbyResolved(joinLobbyBegin(This, seed), sessionId, id, selfId, <<>>),
             m.ids, m.players))

\* C28: on a host, the slot of every roster member is its index in the sorted
\* order of the roster's identities, and every client that has received the
\* latest roster uses the same slot for every member.
C28_SlotBySortedOrder ==
  (isHost /\ sessionId # NoSession) =>
    \A i \in 1..Len(rosterIds) :
      /\ _slotOf(This, rosterIds[i]) = SortedIndex(rosterIds, rosterIds[i])
      /\ \A k \in 2..Len(rosterIds) :
           _slotOf(ClientAfterRoster(rosterIds[k]), rosterIds[i])
             = _slotOf(This, rosterIds[i])


\* The tickIds of the states handed over so far, and which of them were applied.
FedTickIds == [i \in 1..Len(calls) |-> calls[i].state.tickId]

AppliedFlags == [i \in 1..Len(calls) |-> calls[i].applied]

Numbered(state) == state.object /\ state.number

\* C29: a client-mode game applies a state only if its tickId is greater than
\* the current state's; fed the tickIds 5, 3, 5, 7 it applies the first 5 and
\* the 7 and ends on 7; the previous state is always older than the current
\* one; and a state that is not applied leaves the two states and the arrival
\* timing as they were.
C29_NewerStateOnly ==
  /\ [](game.mode = "client" =>
          /\ (game.prevTickState.object =>
                game.prevTickState.tickId < game.currTickState.tickId)
          /\ ((FedTickIds = <<5, 3, 5, 7>>
                 /\ \A i \in 1..Len(calls) : Numbered(calls[i].state)) =>
                /\ AppliedFlags = <<TRUE, FALSE, FALSE, TRUE>>
                /\ game.currTickState.tickId = 7
                /\ game.prevTickState.tickId = 5))
  /\ [][(ApplyRemoteState /\ game.mode = "client") =>
          \A last \in {calls'[Len(calls')]} :
            /\ (last.applied <=>
                  /\ Numbered(last.state)
                  /\ (game.currTickState.object =>
                        last.state.tickId > game.currTickState.tickId))
            /\ (last.applied =>
                  /\ game'.currTickState = last.state
                  /\ game'.prevTickState = game.currTickState
                  /\ game'.prevTickReceivedAt = game.tickReceivedAt)
            /\ (~last.applied => game' = game)]_vars

\* The four states of the example have been handed to a client-mode game.
C29_FedFiveThreeFiveSeven ==
  /\ game.mode = "client"
  /\ FedTickIds = <<5, 3, 5, 7>>
  /\ \A i \in 1..Len(calls) : Numbered(calls[i].state)
  /\ game.currTickState.tickId = 7


\* 32-bit arithmetic on <<high half, low half>>: sum, product with a number
\* of at most 14 bits, and product with any number by its 14-bit digits.
AddU32(p, q) ==
  With(p[2] + q[2], LAMBDA lo :
    <<(p[1] + q[1] + (lo \div HALF)) % HALF, lo % HALF>>)

DigitTimesU32(k, s) ==
  <<(k * s[1] + ((k * s[2]) \div HALF)) % HALF, (k * s[2]) % HALF>>

RECURSIVE TimesU32(_, _)
TimesU32(n, s) ==
  IF n < 16384 THEN DigitTimesU32(n, s)
  ELSE AddU32(DigitTimesU32(16384, TimesU32(n \div 16384, s)),
              DigitTimesU32(n % 16384, s))

\* (1664525 * s + 1013904223) mod 2^32.
LcgOf(s) ==
  AddU32(TimesU32(1664525, s), <<1013904223 \div HALF, 1013904223 % HALF>>)

\* C30: two RNG instances built from the same seed and given the same calls
\* return the same results and stay in the same state; every draw takes the
\* state s to (1664525 * s + 1013904223) mod 2^32, which nextU32 returns; and
\* int(min, maxInclusive) returns a number from min to maxInclusive.
C30_DeterministicRng ==
  /\ [](/\ rngA = rngB
        /\ \A i \in 1..Len(calls) :
             /\ calls[i].a = calls[i].b
             /\ (calls[i].op = "int" =>
                   /\ calls[i].args[1] <= calls[i].a
                   /\ calls[i].a <= calls[i].args[2]))
  /\ [][Len(calls') > Len(calls) =>
          \A last \in {calls'[Len(calls')]} :
            /\ (last.op = "nextU32" => rngA' = LcgOf(rngA) /\ last.a = rngA')
            /\ (last.op = "int" => rngA' = LcgOf(rngA))
            /\ (last.op = "pick" =>
                  IF Len(last.args) = 0
                  THEN rngA' = rngA /\ last.a = "null"
                  ELSE /\ rngA' = LcgOf(rngA)
                       /\ \E k \in 1..Len(last.args) : last.a = last.args[k])]_vars

\* Both instances have answered a nextU32 call, an int call over 1..3 and a
\* pick from the power-up types, from a seed whose low half carries into the
\* high half.
C30_DrawnFromBoth ==
  /\ Len(calls) >= 3
  /\ calls[1].op = "nextU32"
  /\ calls[1].a = <<15547, 9606>>
  /\ \E i \in 1..Len(calls) : calls[i].op = "int" /\ calls[i].args = <<1, 3>>
  /\ \E i \in 1..Len(calls) : calls[i].op = "pick" /\ Len(calls[i].args) > 0


(***************************************************************************)
(* The sub-steps of the next host tick, one by one.                        *)
(***************************************************************************)
\* The steps each living player takes in the tick that starts in c.
TickSteps(c) == [id \in SegCells(AliveRoster(c)) |-> stepsOf(c, id)]

\* The host as sub-step sub of that tick finds it.
BeforeSubstep(c, sub) ==
  runSubsteps(accumulateMoves(c), AliveRoster(c), TickSteps(c), 0, sub)

\* The movers of sub-step sub, in roster order.
MoversOf(c, sub) == SelectSeq(AliveRoster(c), LAMBDA id : TickSteps(c)[id] > sub)

\* The living players that sub-step sub does not move.
Bystanders(c, sub) ==
  {id \in SegCells(BeforeSubstep(c, sub).rosterIds) :
     /\ Has(BeforeSubstep(c, sub).runtime, id)
     /\ BeforeSubstep(c, sub).runtime[id].alive
     /\ id \notin SegCells(MoversOf(c, sub))}

\* C31: a living player that is not among the movers of a sub-step keeps its
\* segments, its alive flag and its score through that sub-step.
C31_OnlyMoversChange ==
  (isHost /\ matchState = "running") =>
    \A c \in {C10_TickStart} :
      \A sub \in 0..(maxStepsOf(TickSteps(c)) - 1) :
        \A before \in {BeforeSubstep(c, sub)} :
          (~before.hung /\ MoversOf(c, sub) # <<>>) =>
            \A after \in {_simulateHostSubstep(before, MoversOf(c, sub))} :
              \A id \in Bystanders(c, sub) :
                /\ after.runtime[id].alive
                /\ after.runtime[id].snake.segments = before.runtime[id].snake.segments
                /\ after.players[id].score = before.players[id].score

\* The next tick has a sub-step that moves one living player and not the
\* other, and the one that moves dies or eats in it.
C31_BystanderBesideMover ==
  /\ isHost /\ matchState = "running"
  /\ \E sub \in 0..(maxStepsOf(TickSteps(C10_TickStart)) - 1) :
       /\ ~BeforeSubstep(C10_TickStart, sub).hung
       /\ Bystanders(C10_TickStart, sub) # {}
       /\ \E id \in SegCells(MoversOf(C10_TickStart, sub)) :
            \/ ~_simulateHostSubstep(BeforeSubstep(C10_TickStart, sub),
                                     MoversOf(C10_TickStart, sub)).runtime[id].alive
            \/ _simulateHostSubstep(BeforeSubstep(C10_TickStart, sub),
                                    MoversOf(C10_TickStart, sub)).players[id].score
                 > BeforeSubstep(C10_TickStart, sub).players[id].score


\* The cells the living snakes of c hold, the head of id's own snake left out.
CellsBeside(c, id) ==
  UNION {{c.runtime[j].snake.segments[k] :
            k \in (IF j = id THEN 2 ELSE 1)..Len(c.runtime[j].snake.segments)} :
           j \in {j \in SegCells(c.rosterIds) : Has(c.runtime, j) /\ c.runtime[j].alive}}

\* C33: after every sub-step the head of a mover that survived it and holds no
\* ghost effect lies on no cell that a segment of a living snake still holds,
\* a doubled tail that its snake's step did not vacate included.
C33_HeadOnFreeCell ==
  (isHost /\ matchState = "running") =>
    \A c \in {C10_TickStart} :
      \A sub \in 0..(maxStepsOf(TickSteps(c)) - 1) :
        \A before \in {BeforeSubstep(c, sub)} :
          (~before.hung /\ MoversOf(c, sub) # <<>>) =>
            \A after \in {_simulateHostSubstep(before, MoversOf(c, sub))} :
              \A id \in SegCells(MoversOf(c, sub)) :
                (/\ before.runtime[id].alive
                 /\ after.runtime[id].alive
                 /\ ~_isGhostHost(before, id)
                 /\ ~_isGhostHost(after, id))
                  => after.runtime[id].snake.segments[1] \notin CellsBeside(after, id)


\* C34: a snake that the respawn of the next tick places, without force, has
\* its head and its second segment on cells that no living snake, food or
\* power-up held when it was placed.
C34_RespawnOnFreeCells ==
  (isHost /\ matchState = "running") =>
    \A id \in SegCells(rosterIds) :
      (/\ Has(runtime, id)
       /\ ~runtime[id].alive
       /\ runtime[id].respawnAtTick # NULL
       /\ tick + 1 >= runtime[id].respawnAtTick
       /\ tick + 1 < matchEndTick) =>
        \A after \in {_respawnPlayerHost(This, id, FALSE)} :
          after.runtime[id].alive =>
            \A k \in 1..Len(after.runtime[id].snake.segments) :
              ~_isCellOccupiedHost(This, after.runtime[id].snake.segments[k][1],
                                   after.runtime[id].snake.segments[k][2])


\* C35: when the await of hostLobby or joinLobby ends after leave() has run,
\* the controller starts no loop and takes no session and no roster: it stays
\* inactive and idle.
C35_LateResolveIgnored ==
  [][(pending # "none" /\ pending' = "none" /\ ~isActive /\ matchState = "idle")
       => /\ ~isActive'
          /\ matchState' = "idle"
          /\ ~rafId'
          /\ sessionId' = NoSession
          /\ rosterIds' = <<>>]_vars


\* C36: on a client that a "start" message has put in 'running', a "countdown"
\* message of that match, delivered after it, does not set matchState back to
\* 'countdown'.
C36_NoReturnToCountdown ==
  [][(/\ isActive /\ ~isHost /\ ~isHost'
      /\ matchState = "running"
      /\ countdownStartTick' # NULL
      /\ countdownStartTick' <= matchStartTick)
       => matchState' # "countdown"]_vars


\* C37: in a simulated host tick a player that lives through it advances its
\* head by exactly n = floor(moveAcc + multiplier) cells, where the multiplier
\* lies in [0, 3] and n <= 3, and is left with moveAcc + multiplier - n, a
\* value in [0, 1) (all in hundredths here).
C37_AccumulatorSteps ==
  [][SimulatedTick =>
       \A c \in {C10_TickStart} :
         \A id \in SegCells(AliveRoster(c)) :
           \A sum \in {c.runtime[id].moveAcc + _getMoveMultiplierHost(c, id)} :
             /\ _getMoveMultiplierHost(c, id) >= 0
             /\ _getMoveMultiplierHost(c, id) <= 300
             /\ \E n \in 0..3 :
                  /\ 100 * n <= sum
                  /\ sum < 100 * (n + 1)
                  /\ (Has(runtime', id) /\ runtime'[id].alive) =>
                       /\ runtime'[id].moveAcc = sum - 100 * n
                       /\ runtime'[id].moveAcc >= 0
                       /\ runtime'[id].moveAcc < 100
                       /\ runtime'[id].snake.segments[1] =
                            <<c.runtime[id].snake.segments[1][1]
                                + n * c.runtime[id].snake.nextDirection[1],
                              c.runtime[id].snake.segments[1][2]
                                + n * c.runtime[id].snake.nextDirection[2]>>]_vars

\* A player that carried the speed effect and half a step into the last tick
\* has taken two steps in it and is left with an empty accumulator.
C37_TookTwoSteps ==
  /\ isHost
  /\ matchState = "running"
  /\ tick = SimTick + 1
  /\ \E id \in SegCells(rosterIds) :
       /\ Has(runtime, id)
       /\ runtime[id].alive
       /\ runtime[id].speedUntilTick = SimTick - 1 + SPEED_TICKS
       /\ tick < runtime[id].speedUntilTick
       /\ runtime[id].moveAcc = 0


\* C38: no host tick hangs: the replenishment of foods and power-ups after a
\* pickup, and the rebuild of the world at match start, come to an end even
\* when the board has no free cell.
C38_TickTerminates == isHost => ~hung


\* C40: on a host, rosterIds holds no identity twice and at most MAX_PLAYERS
\* of them, every identity in it has an entry in the players map and in the
\* runtime map, and distinct roster members have distinct slots in
\* 0..MAX_PLAYERS - 1.
C40_RosterWellFormed ==
  isHost =>
    /\ \A i, j \in 1..Len(rosterIds) : rosterIds[i] = rosterIds[j] => i = j
    /\ Len(rosterIds) <= MAX_PLAYERS
    /\ \A i \in 1..Len(rosterIds) :
         /\ Has(players, rosterIds[i])
         /\ Has(runtime, rosterIds[i])
         /\ _slotOf(This, rosterIds[i]) \in 0..(MAX_PLAYERS - 1)
    /\ \A i, j \in 1..Len(rosterIds) :
         rosterIds[i] # rosterIds[j] =>
           _slotOf(This, rosterIds[i]) # _slotOf(This, rosterIds[j])


\* The roster is full: the host and three of the four peers are in it, each
\* with its own slot, and the fourth peer has no entry anywhere.
C40_FullRoster ==
  /\ isHost
  /\ isActive
  /\ Len(rosterIds) = MAX_PLAYERS
  /\ {_slotOf(This, rosterIds[i]) : i \in 1..Len(rosterIds)} = 0..(MAX_PLAYERS - 1)
  /\ \E id \in LobbyPeers :
       ~Includes(rosterIds, id) /\ ~Has(players, id) /\ ~Has(runtime, id)



(***************************************************************************)
(* CountdownSpec: the lobby controller of main.js, whose countdown is an   *)
(* interval timer.  What api.transmit is given is left out; names and the  *)
(* user interface are left out.  The handlers are operators on the record  *)
(* of the controller's fields.                                             *)
(***************************************************************************)
COUNTDOWN_SECONDS == 5
MaxTimers == 2
MaxLaunched == 2
TimerPeers == {2, 3}

isInMultiplayerSession(m) == m.api /\ m.sessionId # NoSession

\* Slots 1, 2, ... in the sorted order of the identities.
assignSlotsHostSide(m) ==
  [m EXCEPT !.players =
     [id \in DOMAIN m.players |->
        [m.players[id] EXCEPT
           !.slot = Cardinality({other \in DOMAIN m.players : other < id}) + 1]]]

broadcastLobbyState(m) ==
  IF ~m.isHost \/ ~isInMultiplayerSession(m) THEN m ELSE assignSlotsHostSide(m)

\* setInterval(..., 1000) with seconds = 5: one more timer.
maybeStartCountdown(m) ==
  IF ~m.isHost \/ ~isInMultiplayerSession(m) THEN m
  ELSE IF m.game = "running" THEN m
  ELSE IF Cardinality(DOMAIN m.players) < 2 THEN m
  ELSE IF ~(\A id \in DOMAIN m.players : m.players[id].ready) THEN m
  ELSE [m EXCEPT !.timers = Append(m.timers, COUNTDOWN_SECONDS)]

\* new MultiplayerGame({mode: "host", ...}) and game.start().
startMultiplayerMatchHost(m) ==
  IF ~m.isHost \/ ~isInMultiplayerSession(m) THEN m
  ELSE [m EXCEPT !.game = "running", !.launched = m.launched + 1]

\* The callback of timer i.  With seconds left it transmits the countdown
\* (and throws when this.api is null, after seconds was lowered); at zero it
\* clears its interval and starts the match.
countdownInterval(m, i) ==
  IF m.timers[i] - 1 > 0 THEN [m EXCEPT !.timers[i] = m.timers[i] - 1]
  ELSE startMultiplayerMatchHost([m EXCEPT !.timers = RemoveAt(m.timers, i - 1)])

stopMultiplayerMatch(m) == [m EXCEPT !.game = "none"]

lobbyHostLobby(m) ==
  [m EXCEPT !.api = TRUE, !.isHost = TRUE, !.localReady = FALSE, !.hosting = TRUE]

\* The rest of hostLobby, once api.host() has answered with a session.
lobbyHostLobbyResolved(m, session, clientId) ==
  broadcastLobbyState(assignSlotsHostSide(
    [m EXCEPT !.hosting = FALSE,
              !.sessionId = session,
              !.clientId = clientId,
              !.players = Put(EmptyMap, clientId, [ready |-> FALSE, slot |-> 1])]))

lobbyToggleReady(m) ==
  IF ~isInMultiplayerSession(m) THEN m
  ELSE With([m EXCEPT
               !.localReady = ~m.localReady,
               !.players = IF Has(m.players, m.clientId)
                           THEN [m.players EXCEPT ![m.clientId].ready = ~m.localReady]
                           ELSE m.players],
            LAMBDA m1 : IF m1.isHost THEN maybeStartCountdown(m1) ELSE m1)

leaveLobby(m) ==
  [stopMultiplayerMatch(m) EXCEPT
     !.api = FALSE, !.sessionId = NoSession, !.clientId = NoId, !.isHost = FALSE,
     !.players = EmptyMap, !.localReady = FALSE]

onJoined(m, clientId) ==
  IF clientId = NoId THEN m
  ELSE With([m EXCEPT !.players =
               IF Has(m.players, clientId) THEN m.players
               ELSE Put(m.players, clientId, [ready |-> FALSE, slot |-> 0])],
            LAMBDA m1 :
              IF m1.isHost
              THEN maybeStartCountdown(broadcastLobbyState(assignSlotsHostSide(m1)))
              ELSE m1)

onLeft(m, clientId) ==
  IF clientId = NoId THEN m
  ELSE With([m EXCEPT !.players = Del(m.players, clientId)],
            LAMBDA m1 :
              IF m1.isHost THEN broadcastLobbyState(assignSlotsHostSide(m1)) ELSE m1)

\* onGameMessage, case "ready".
onReadyMessage(m, fromClientId, ready) ==
  IF ~m.isHost THEN m
  ELSE maybeStartCountdown(broadcastLobbyState(
         [m EXCEPT !.players =
            IF Has(m.players, fromClientId)
            THEN [m.players EXCEPT ![fromClientId].ready = ready]
            ELSE m.players]))

handleMatchEnd(m) ==
  [stopMultiplayerMatch(m) EXCEPT
     !.players = [id \in DOMAIN m.players |-> [m.players[id] EXCEPT !.ready = FALSE]],
     !.localReady = FALSE]

\* The handlers that can start a countdown run while fewer than MaxTimers
\* timers are alive, the timers while fewer than MaxLaunched games were made.
LobbyHostLobby ==
  /\ ~lobby.hosting
  /\ ~isInMultiplayerSession(lobby)
  /\ lobby' = lobbyHostLobby(lobby)
  /\ UNCHANGED <<controller, game, rngA, rngB, calls>>

LobbyHostLobbyResolved ==
  /\ lobby.hosting
  /\ lobby' = lobbyHostLobbyResolved(lobby, SessionCode, HostId)
  /\ UNCHANGED <<controller, game, rngA, rngB, calls>>

LobbyToggleReady ==
  /\ Len(lobby.timers) < MaxTimers
  /\ lobby' = lobbyToggleReady(lobby)
  /\ UNCHANGED <<controller, game, rngA, rngB, calls>>

LobbyLeaveLobby ==
  /\ lobby' = leaveLobby(lobby)
  /\ UNCHANGED <<controller, game, rngA, rngB, calls>>

LobbyOnJoined ==
  /\ lobby.api
  /\ Len(lobby.timers) < MaxTimers
  /\ \E id \in TimerPeers : lobby' = onJoined(lobby, id)
  /\ UNCHANGED <<controller, game, rngA, rngB, calls>>

LobbyOnLeft ==
  /\ lobby.api
  /\ \E id \in TimerPeers : lobby' = onLeft(lobby, id)
  /\ UNCHANGED <<controller, game, rngA, rngB, calls>>

LobbyOnReady ==
  /\ lobby.api
  /\ Len(lobby.timers) < MaxTimers
  /\ \E id \in TimerPeers, ready \in BOOLEAN : lobby' = onReadyMessage(lobby, id, ready)
  /\ UNCHANGED <<controller, game, rngA, rngB, calls>>

LobbyTimer ==
  /\ lobby.launched < MaxLaunched
  /\ \E i \in 1..Len(lobby.timers) : lobby' = countdownInterval(lobby, i)
  /\ UNCHANGED <<controller, game, rngA, rngB, calls>>

\* The running game reports its end (onEnd of startMultiplayerMatchHost).
LobbyMatchEnd ==
  /\ lobby.game = "running"
  /\ lobby' = handleMatchEnd(lobby)
  /\ UNCHANGED <<controller, game, rngA, rngB, calls>>

CountdownNext ==
  \/ LobbyHostLobby
  \/ LobbyHostLobbyResolved
  \/ LobbyToggleReady
  \/ LobbyLeaveLobby
  \/ LobbyOnJoined
  \/ LobbyOnLeft
  \/ LobbyOnReady
  \/ LobbyTimer
  \/ LobbyMatchEnd

CountdownSpec == Init /\ [][CountdownNext]_vars

\* C39: on the timer-based lobby controller at most one countdown timer is
\* alive at a time.
C39_OneCountdown == Len(lobby.timers) <= 1



(***************************************************************************)
(* HostGameSpec: a MultiplayerGame in host mode, taken up in mid-match.    *)
(*   game is [mode, isRunning, tickId, snakes, pendingKeys, foods, ended]: *)
(*   snakes : clientId -> [snake, score, alive, moveProgress], walked in   *)
(*            the order of the identities (the order resetHostWorld        *)
(*            inserts them in);                                            *)
(*   ended  : what onEnd was called with, call by call.                    *)
(* No power-up lies on the board and no effect is active, so every snake   *)
(* moves at baseMoveDuration; moveProgress is kept in milliseconds of it.  *)
(* Math.random of spawnFoodHost is the cell `pref` the frame is given: the *)
(* food goes to the first free cell from there on, in row order.           *)
(***************************************************************************)
BASE_MOVE_DURATION == 120
LOOP_SAFETY == 10
MaxHostTicks == 3

isCellBlockedHost(g, cell) ==
  \/ \E id \in DOMAIN g.snakes :
       /\ g.snakes[id].alive
       /\ \E k \in 1..Len(g.snakes[id].snake.segments) :
            g.snakes[id].snake.segments[k] = cell
  \/ \E i \in 1..Len(g.foods) : g.foods[i] = cell

spawnFoodHost(g, pref) ==
  LET cellAt(n) == <<n % GRID_COLS, (n \div GRID_COLS) % GRID_ROWS>>
      free == {n \in pref..(pref + GRID_COLS * GRID_ROWS - 1) :
                 ~isCellBlockedHost(g, cellAt(n))}
  IN IF free = {} THEN g
     ELSE [g EXCEPT !.foods =
             Append(g.foods, cellAt(CHOOSE n \in free : \A o \in free : n <= o))]

anySnakeReadyToStep(g) ==
  \E id \in DOMAIN g.snakes :
    g.snakes[id].alive /\ g.snakes[id].moveProgress >= BASE_MOVE_DURATION

\* scores.sort(...)[0]: the first of the highest scores.
endGameHost(g) ==
  LET top == CHOOSE id \in DOMAIN g.snakes :
               \A o \in DOMAIN g.snakes :
                 \/ g.snakes[o].score < g.snakes[id].score
                 \/ (g.snakes[o].score = g.snakes[id].score /\ id <= o)
  IN [g EXCEPT !.isRunning = FALSE,
               !.ended = Append(g.ended, [winner |-> top, tickId |-> g.tickId])]

\* The third loop of tickHost, for the snakes from identity cid on.
RECURSIVE settleSnakes(_, _, _)
settleSnakes(g, cid, pref) ==
  IF cid > Max(0, CHOOSE m \in DOMAIN g.snakes : \A o \in DOMAIN g.snakes : o <= m) THEN g
  ELSE IF ~Has(g.snakes, cid) \/ ~g.snakes[cid].alive THEN settleSnakes(g, cid + 1, pref)
  ELSE LET segs == g.snakes[cid].snake.segments
           head == segs[1]
           dies ==
             \/ OutOfBounds(head)
             \/ \E i \in 2..Len(segs) : segs[i] = head
             \/ \E oid \in DOMAIN g.snakes :
                  /\ oid # cid
                  /\ g.snakes[oid].alive
                  /\ \E i \in 1..Len(g.snakes[oid].snake.segments) :
                       g.snakes[oid].snake.segments[i] = head
           idx == IndexOf(g.foods, head)
       IN IF dies
          THEN settleSnakes([g EXCEPT !.snakes[cid].alive = FALSE], cid + 1, pref)
          ELSE IF idx = -1 THEN settleSnakes(g, cid + 1, pref)
          ELSE settleSnakes(
                 spawnFoodHost([g EXCEPT !.snakes[cid].snake = grow(g.snakes[cid].snake),
                                         !.snakes[cid].score = g.snakes[cid].score + 10,
                                         !.foods = RemoveAt(g.foods, idx)],
                               pref),
                 cid + 1, pref)

tickHost(g, stepIds, pref) ==
  With([g EXCEPT
          !.tickId = g.tickId + 1,
          !.pendingKeys = EmptyMap,
          !.snakes =
            [cid \in DOMAIN g.snakes |->
               With(IF g.snakes[cid].alive /\ Has(g.pendingKeys, cid)
                    THEN [g.snakes[cid] EXCEPT !.snake =
                            setDirection(g.snakes[cid].snake,
                                         keyToDir(g.pendingKeys[cid])[1],
                                         keyToDir(g.pendingKeys[cid])[2])]
                    ELSE g.snakes[cid],
                    LAMBDA entry :
                      IF entry.alive /\ cid \in stepIds
                      THEN [entry EXCEPT
                              !.snake = step(entry.snake),
                              !.moveProgress = Max(0, entry.moveProgress - BASE_MOVE_DURATION)]
                      ELSE entry)]],
       LAMBDA g1 :
         With(settleSnakes(g1, 1, pref), LAMBDA g2 :
           IF Cardinality({cid \in DOMAIN g2.snakes : g2.snakes[cid].alive}) <= 1
           THEN endGameHost(g2)
           ELSE g2))

\* while (this.anySnakeReadyToStep() && safety++ < 10) this.tickHost(t, stepIds);
RECURSIVE hostTicks(_, _, _)
hostTicks(g, safety, pref) ==
  IF ~anySnakeReadyToStep(g) \/ safety >= LOOP_SAFETY THEN g
  ELSE hostTicks(
         tickHost(g,
                  {cid \in DOMAIN g.snakes :
                     g.snakes[cid].alive /\ g.snakes[cid].moveProgress >= BASE_MOVE_DURATION},
                  pref),
         safety + 1, pref)

\* loop(t) of a host, delta milliseconds after the frame before.
loop(g, delta, pref) ==
  IF ~g.isRunning THEN g
  ELSE hostTicks(
         [g EXCEPT !.snakes =
            [cid \in DOMAIN g.snakes |->
               IF g.snakes[cid].alive
               THEN [g.snakes[cid] EXCEPT !.moveProgress = g.snakes[cid].moveProgress + delta]
               ELSE g.snakes[cid]]],
         0, pref)

applyRemoteInput(g, clientId, key) ==
  IF g.mode # "host" THEN g ELSE [g EXCEPT !.pendingKeys = Put(g.pendingKeys, clientId, key)]

HostEntry(segs, dir, score) ==
  [snake |-> [segments |-> segs, direction |-> dir, nextDirection |-> dir],
   score |-> score, alive |-> TRUE, moveProgress |-> 0]

\* The matches the game is taken up in: two snakes, or three.
HostBoards ==
  {[snakes |-> (1 :> HostEntry(<<<<1, 1>>, <<0, 1>>>>, <<1, 0>>, 0))
               @@ (2 :> HostEntry(<<<<1, 3>>, <<2, 3>>>>, <<-1, 0>>, 0)),
    foods |-> <<<<3, 1>>>>],
   [snakes |-> (1 :> HostEntry(<<<<2, 2>>, <<2, 1>>, <<2, 0>>>>, <<0, 1>>, 10))
               @@ (2 :> HostEntry(<<<<0, 3>>, <<0, 2>>>>, <<0, 1>>, 0)),
    foods |-> <<<<4, 4>>>>],
   [snakes |-> (1 :> HostEntry(<<<<1, 1>>, <<0, 1>>>>, <<1, 0>>, 0))
               @@ (2 :> HostEntry(<<<<3, 3>>, <<4, 3>>>>, <<-1, 0>>, 0))
               @@ (3 :> HostEntry(<<<<1, 4>>, <<2, 4>>>>, <<-1, 0>>, 0)),
    foods |-> <<<<2, 1>>>>]}

HostGameInit ==
  /\ Constructed
  /\ \E bd \in HostBoards :
       game = [mode |-> "host", isRunning |-> TRUE, tickId |-> 0,
               snakes |-> bd.snakes, pendingKeys |-> EmptyMap,
               foods |-> bd.foods, ended |-> <<>>]
  /\ rngA = <<0, 0>>
  /\ rngB = <<0, 0>>
  /\ calls = <<>>
  /\ lobby = NewLobby

\* A frame: 60 or 240 ms after the one before.
HostLoop ==
  /\ game.isRunning
  /\ game.tickId < MaxHostTicks
  /\ \E delta \in {60, 240}, pref \in {0, 12} : game' = loop(game, delta, pref)
  /\ UNCHANGED <<controller, rngA, rngB, calls, lobby>>

\* An "input" message of a player reaches the host.
HostInput ==
  /\ game.isRunning
  /\ \E cid \in DOMAIN game.snakes, key \in {"ArrowUp", "ArrowLeft"} :
       game' = applyRemoteInput(game, cid, key)
  /\ UNCHANGED <<controller, rngA, rngB, calls, lobby>>

HostGameNext ==
  \/ HostLoop
  \/ HostInput

HostGameSpec == HostGameInit /\ [][HostGameNext]_vars

\* C32: a host game reports its end once: onEnd is called at most once in a
\* match, and no host tick is simulated after it.
C32_EndReportedOnce == Len(game.ended) <= 1

=============================================================================
